---- MODULE Spec2Model ----
(***************************************************************************)
(* A model of the telemetry core of vehicall-os/smart-dm: the sensor ring  *)
(* buffer, the alert manager, the event fusion engine, the inference       *)
(* batcher and the OBD PID scheduler.  Every component is a state machine  *)
(* of its own over its own variables; one specification per component      *)
(* (SpecRing, SpecAlert, SpecFusion, SpecBatcher, SpecSched) leaves the     *)
(* variables of the other components unchanged.                            *)
(***************************************************************************)
EXTENDS Integers, Sequences, FiniteSets, TLC

VARIABLES
    \* ---- ring-buffer/src/buffer.rs : struct RingBuffer
    capacity, storage, head, tail, total_written,
    pushed,          \* history: the frames pushed so far, oldest first
    rl,              \* the last read_last call: its argument, len() and result
    \* ---- alerting/src/manager.rs : struct AlertManager
    config, states, hourly_count, hour_start,
    clock,           \* Instant::now(), in seconds
    ticks,           \* number of clock advances made
    fired_at,        \* per label: when the should_fire = true of its last
                     \* recorded fire was made, or NoTime
    fire_log,        \* history: <<time, hourly period>> of every record_fire
    epoch,           \* history: number of hourly resets so far
    disciplined,     \* every record_fire directly followed its should_fire = true
    cleared,         \* clear() has been called
    last_call,       \* the last should_fire call and what it returned
    \* ---- event-fusion/src/lib.rs : struct EventFusion
    obd_window, dms_window, adas_window, imu_window, fusion_config, driver_id,
    fused,           \* the last fuse() call: whether made, and what it returned
    \* ---- inference-engine/src/batcher.rs : struct InferenceBatcher
    batcher,         \* batch_size and timeout_ms
    chan,            \* the mpsc channel of feature vectors, oldest first
    chan_closed,     \* every Sender has been dropped
    bpc,             \* where run() is: "recv_first", "collect", "process", "stopped"
    batch,           \* the batch being collected, then processed
    deadline,        \* when the pending timeout(timeout_duration, recv()) expires
    btime,           \* the tokio clock, in ms
    n_sent,          \* history: feature vectors sent so far (they are 1, 2, ...)
    first_at,        \* history: when the first item of the batch was received
    collect_end,     \* history: when the collection of the batch ended
    submitted,       \* history: the vectors given to engine.predict, in order
    \* ---- obd-scheduler/src/scheduler.rs : struct PidScheduler
    queue,           \* the BinaryHeap, as the set of its ScheduledPid entries;
                     \* next_query is in ms from the current instant
    sched_config, running, last_coolant_temp,
    current_frame,   \* run(): the PIDs whose field of current_frame was written
    frame_chan,      \* the frames waiting in the channel behind frame_tx
    client,          \* the ObdClient run() was given: how its queries answer
    overflow_checks, \* the build panics on integer overflow (debug profile)
    panicked,        \* run() has unwound from a panic
    last_iter        \* the last iteration of run(): what it popped, the answer
                     \* of the query and what it pushed back

ringVars  == <<capacity, storage, head, tail, total_written, pushed, rl>>
alertVars == <<config, states, hourly_count, hour_start, clock, ticks,
               fired_at, fire_log, epoch, disciplined, cleared,
               last_call>>

fusionVars == <<obd_window, dms_window, adas_window, imu_window,
                fusion_config, driver_id, fused>>

batchVars == <<batcher, chan, chan_closed, bpc, batch, deadline, btime,
               n_sent, first_at, collect_end, submitted>>

schedVars == <<queue, sched_config, running, last_coolant_temp,
               current_frame, frame_chan, client, overflow_checks, panicked,
               last_iter>>

VARIABLES
    \* ---- ring-buffer/src/buffer.rs : push and read_last on two threads
    wpc,             \* where push is: "idle", "write", "store_head",
                     \* "add_total", "tail"
    w_head,          \* push: its local head
    rpc,             \* where read_last is: "idle", "len_tail", "load_head",
                     \* "loop", "clone"
    r_count,         \* read_last: its argument
    r_len_head,      \* len(): its local head
    r_len,           \* read_last: its local len
    r_head,          \* read_last: its local head
    r_i,             \* read_last: the loop index
    r_frames,        \* read_last: the frames cloned so far
    r_snap,          \* the slot as it was when its clone began
    r_raced,         \* the clone in progress has overlapped a write of its slot
    r_base,          \* history: frames published when read_last was called
    cread            \* the last read_last that returned, and its result

VARIABLES
    \* ---- inference-engine/src/batcher.rs : history of run()
    closed_in,       \* where run() was when the last Sender was dropped
    last_predict     \* the last engine.predict call: its vector and result

bghostVars == <<closed_in, last_predict>>

VARIABLES
    \* ---- event-fusion/src/lib.rs : time and history of the windows
    stale,           \* per source: its newest sample is older than the
                     \* staleness budget of the source
    last_add         \* the last add_* call: its source, its item, and whether
                     \* the window was full

fghostVars == <<stale, last_add>>

concVars == <<wpc, w_head, rpc, r_count, r_len_head, r_len, r_head, r_i,
              r_frames, r_snap, r_raced, r_base, cread>>

\* the variables beyond those of the five sequential components
VARIABLES
    \* ---- data-validator/src/filter.rs : struct MedianFilter
    mf_window, mf_size, mf_position, mf_filled,
    mf_inputs,       \* history: the inputs since new() or the last reset()
    mf_out,          \* the last filter call and what it returned
    \* ---- storage/src/repository.rs : struct Repository
    sensor_log, predictions, max_sensor_records, max_prediction_records,
    next_prediction_id,
    sensors_inserted,     \* history: sensor records inserted since clear()
    predictions_inserted  \* history: predictions inserted since clear(),
                          \* with the id each was given

VARIABLES
    \* ---- storage/src/repository.rs : insert_prediction on several threads
    ins_pc,          \* per thread: "idle", "locked_predictions", "locked_id",
                     \* "assigned", "pushed"
    ins_record,      \* per thread: the record argument of the call
    predictions_lock, id_lock,   \* the holder of each Mutex, or NoThread
    returned_ids     \* history: the ids returned, in order of completion

VARIABLES
    \* ---- obd-scheduler/src/scheduler.rs : history of run()
    fail_streak      \* per PID: failed queries since its last success, or
                     \* since the start of run()

sghostVars == <<fail_streak>>

VARIABLES
    \* ---- obd-scheduler/src/scheduler.rs : boost_priority
    last_boost       \* the last boost_priority call: its arguments and the
                     \* queue before and after it

sboostVars == <<last_boost>>

VARIABLES
    \* ---- obd-scheduler/src/scheduler.rs : run() against the wall clock
    late,            \* ms by which tokio::time::sleep returns after its
                     \* deadline
    elapsed,         \* ms from the start of run() to the last query
    queries          \* per PID: queries made since the start of run()

srateVars == <<late, elapsed, queries>>

VARIABLES
    \* ---- alerting/src/manager.rs : get_severity
    sev              \* the last get_severity call: its argument and result

sevVars == <<sev>>

VARIABLES
    \* ---- data-validator/src/validator.rs : validate_checksum
    cs_data, cs_expected,   \* the arguments of the call
    cs_result               \* what the call returned

checksumVars == <<cs_data, cs_expected, cs_result>>

VARIABLES
    \* ---- ring-buffer/src/buffer.rs : read_window
    stamps,          \* history: timestamp_ms of the frames pushed, in order
    rw               \* the last read_window call: its argument, the system
                     \* time it read and its result

rwinVars == <<stamps, rw>>

VARIABLES
    \* ---- camera-capture/src/imu.rs, obd-protocol/src/ffi.rs : the polling
    \*      thread of ImuService::spawn / AsyncCanDriver::spawn
    poll_kind,       \* "imu" or "can": which of the two services this is
    poll_pc,         \* where the thread is: "init", "check", "read", "send",
                     \* "sleep" or "done" (the closure has returned)
    poll_shutdown,   \* the AtomicBool shared with the service
    poll_rx_open,    \* the service (and with it the Receiver) is alive
    poll_chan,       \* the mpsc channel: items sent and not yet received
    poll_item        \* the value the last read returned, to be sent

pollVars == <<poll_kind, poll_pc, poll_shutdown, poll_rx_open, poll_chan,
              poll_item>>

VARIABLES
    \* ---- alerting/src/manager.rs : record_fire / acknowledge
    aop              \* the last record_fire or acknowledge call: its label,
                     \* what it returned, and the manager as it found it

aopVars == <<aop>>

VARIABLES
    \* ---- obd-scheduler/src/scheduler.rs : run / stop as calls
    life_run,        \* "idle": run() not called yet or returned; "running":
                     \* its future is alive; "dropped": its future was dropped
    life_stop,       \* stop() has been called, and the queries issued since
    life_drops       \* history: futures of run() dropped so far

lifeVars == <<life_run, life_stop, life_drops>>

VARIABLES
    \* ---- data-validator/src/normalizer.rs
    normalizer,      \* the Normalizer: mean, variance, alpha, initialized,
                     \* method, min, max
    norm_call        \* the last normalize call: its argument and result

normVars == <<normalizer, norm_call>>

VARIABLES
    \* ---- feature-engine/src/features.rs : extract_from_frames
    xf               \* the call in progress: the frames it was given and
                     \* whether it has got to extract()

xfVars == <<xf>>

VARIABLES
    \* ---- cloud-sync/src/lib.rs
    cloud,           \* the CloudSync: daily_quota_mb and schedule of its
                     \* config, whether it has a client, used_today_mb
    cloud_call       \* the last publish_event call: its event, the hour it
                     \* read, what it found in used_today_mb, its result

cloudVars == <<cloud, cloud_call>>

VARIABLES
    \* ---- storage/src/repository.rs : the Mutexes of the Repository
    lk_op,           \* per thread: the operation it is in, or "none"
    lk_step,         \* per thread: the next step of that operation
    lk_holder        \* per Mutex: the thread that holds its guard

lockVars == <<lk_op, lk_step, lk_holder>>

VARIABLES
    \* ---- obd-scheduler/src/scheduler.rs : the values of run()'s
    \*      current_frame
    cur,             \* current_frame: the field of each PID, timestamp_ms
    decoded,         \* history: per PID, the field value of its last
                     \* successful response (0 before the first)
    offers,          \* history: try_send calls made so far
    data_before      \* cur and offers as the last iteration found them

dataVars == <<cur, decoded, offers, data_before>>

\* the components added after the first twelve
lateVars == <<pollVars, aopVars, lifeVars, normVars, xfVars, cloudVars, lockVars, dataVars>>
lateNoData == <<pollVars, aopVars, lifeVars, normVars, xfVars, cloudVars, lockVars>>
lateNoLock == <<pollVars, aopVars, lifeVars, normVars, xfVars, cloudVars, dataVars>>
lateNoCloud == <<pollVars, aopVars, lifeVars, normVars, xfVars, lockVars, dataVars>>
lateNoXf == <<pollVars, aopVars, lifeVars, normVars, cloudVars, lockVars, dataVars>>
lateNoNorm == <<pollVars, aopVars, lifeVars, xfVars, cloudVars, lockVars, dataVars>>
lateNoLife == <<pollVars, aopVars, normVars, xfVars, cloudVars, lockVars, dataVars>>
lateNoPoll == <<aopVars, lifeVars, normVars, xfVars, cloudVars, lockVars, dataVars>>
lateNoAop == <<pollVars, lifeVars, normVars, xfVars, cloudVars, lockVars, dataVars>>

insVars == <<ins_pc, ins_record, predictions_lock, id_lock, returned_ids>>

medianVars == <<mf_window, mf_size, mf_position, mf_filled, mf_inputs, mf_out>>

repoVars == <<sensor_log, predictions, max_sensor_records,
              max_prediction_records, next_prediction_id, sensors_inserted,
              predictions_inserted>>

extVars == <<concVars, bghostVars, fghostVars, medianVars, repoVars, insVars,
             sghostVars, rwinVars, sboostVars, srateVars, sevVars,
             checksumVars, lateVars>>

\* the twelve alone
extOld == <<concVars, bghostVars, fghostVars, medianVars, repoVars, insVars,
            sghostVars, rwinVars, sboostVars, srateVars, sevVars,
            checksumVars>>

\* the same without those of one component
extNoBatch  == <<concVars, fghostVars, medianVars, repoVars, insVars, sghostVars, rwinVars, sboostVars, srateVars, sevVars, checksumVars, lateVars>>
extNoFusion == <<concVars, bghostVars, medianVars, repoVars, insVars, sghostVars, rwinVars, sboostVars, srateVars, sevVars, checksumVars, lateVars>>
extNoConc   == <<bghostVars, fghostVars, medianVars, repoVars, insVars, sghostVars, rwinVars, sboostVars, srateVars, sevVars, checksumVars, lateVars>>
extNoMedian == <<concVars, bghostVars, fghostVars, repoVars, insVars, sghostVars, rwinVars, sboostVars, srateVars, sevVars, checksumVars, lateVars>>
extNoSched  == <<concVars, bghostVars, fghostVars, medianVars, repoVars, insVars,
                 rwinVars, sboostVars, srateVars, sevVars, checksumVars, lateVars>>
extNoRwin   == <<concVars, bghostVars, fghostVars, medianVars, repoVars, insVars,
                 sghostVars, sboostVars, srateVars, sevVars, checksumVars, lateVars>>
extNoBoost  == <<concVars, bghostVars, fghostVars, medianVars, repoVars, insVars,
                 sghostVars, rwinVars, srateVars, sevVars, checksumVars, lateVars>>
extNoRate   == <<concVars, bghostVars, fghostVars, medianVars, repoVars, insVars,
                 sghostVars, rwinVars, sboostVars, sevVars, checksumVars, lateVars>>
extNoSev    == <<concVars, bghostVars, fghostVars, medianVars, repoVars, insVars,
                 sghostVars, rwinVars, sboostVars, srateVars, checksumVars, lateVars>>
extNoChecksum == <<concVars, bghostVars, fghostVars, medianVars, repoVars,
                   insVars, sghostVars, rwinVars, sboostVars, srateVars,
                   sevVars, lateVars>>
extNoRepo   == <<concVars, bghostVars, fghostVars, medianVars, insVars, sghostVars, rwinVars, sboostVars, srateVars, sevVars, checksumVars, lateVars>>

\* the five sequential components
coreVars == <<ringVars, alertVars, fusionVars, batchVars, schedVars>>

vars == <<ringVars, alertVars, fusionVars, batchVars, schedVars, extVars>>

Min(a, b) == IF a <= b THEN a ELSE b
Max(a, b) == IF a >= b THEN a ELSE b
Abs(x)    == IF x < 0 THEN 0 - x ELSE x

(***************************************************************************)
(* Ring buffer                                                             *)
(***************************************************************************)
MaxCap    == 3      \* capacities 1..MaxCap are explored
MaxPushes == 6      \* frames pushed in one run
MaxRead   == 4      \* largest count given to read_last

DefaultFrame == 0   \* SensorFrame::default(); pushed frames are 1, 2, 3, ...

RingInit ==
    /\ capacity \in 1..MaxCap
    /\ storage = [i \in 0..(capacity - 1) |-> DefaultFrame]
    /\ head = 0
    /\ tail = 0
    /\ total_written = 0
    /\ pushed = <<>>
    /\ rl = [called |-> FALSE, count |-> 0, len |-> 0, frames |-> <<>>]

\* len(): a wrong comparison (head > tail) reports a full buffer for an empty one
RingLenStrict ==
    IF head > tail THEN head - tail ELSE capacity - tail + head

RingLen ==
    IF head >= tail THEN head - tail ELSE capacity - tail + head

\* index of the i-th newest frame (i from 0) without the - 1
ReadIdxOffByOne(i) ==
    IF head >= i + 1 THEN head - i ELSE capacity - (i + 1 - head)

ReadIdx(i) ==
    IF head >= i + 1 THEN head - i - 1 ELSE capacity - (i + 1 - head)

ReadLastFrames(count) ==
    LET n == Min(count, RingLen)
    IN  [k \in 1..n |-> storage[ReadIdx(k - 1)]]

Push(frame) ==
    LET next_head == (head + 1) % capacity
    IN  /\ Len(pushed) < MaxPushes
        /\ storage' = [storage EXCEPT ![head] = frame]
        /\ head' = next_head
        /\ total_written' = total_written + 1
        /\ tail' = IF next_head = tail THEN (tail + 1) % capacity ELSE tail
        /\ pushed' = Append(pushed, frame)
        /\ rl' = [called |-> FALSE, count |-> 0, len |-> 0, frames |-> <<>>]
        /\ UNCHANGED capacity

ReadLast(count) ==
    /\ rl' = [called |-> TRUE, count |-> count, len |-> RingLen,
              frames |-> ReadLastFrames(count)]
    /\ UNCHANGED <<capacity, storage, head, tail, total_written, pushed>>

Clear ==
    /\ tail' = head
    /\ rl' = [called |-> FALSE, count |-> 0, len |-> 0, frames |-> <<>>]
    /\ UNCHANGED <<capacity, storage, head, total_written, pushed>>

RingPush  == Push(Len(pushed) + 1) /\ UNCHANGED <<alertVars, fusionVars, batchVars, schedVars, extVars>>
RingRead  == (\E count \in 0..MaxRead : ReadLast(count)) /\ UNCHANGED <<alertVars, fusionVars, batchVars, schedVars, extVars>>
RingClear == Clear /\ UNCHANGED <<alertVars, fusionVars, batchVars, schedVars, extVars>>
RingNext  == RingPush \/ RingRead \/ RingClear

(***************************************************************************)
(* FeatureExtractor::extract_from_frames on a slice of 0..MaxFrames        *)
(* frames: a buffer of its own, one push per frame, then extract(), whose  *)
(* read_window calls begin with read_last(self.len()).                     *)
(***************************************************************************)
MaxFrames == 4
FrameValues == {1, 2}
FrameSlices == UNION {[1..n -> FrameValues] : n \in 0..MaxFrames}

NoExtract == [active |-> FALSE, frames |-> <<>>, extracted |-> FALSE]

XfInit == xf = NoExtract

XfUnchanged == <<alertVars, fusionVars, batchVars, schedVars, extOld, lateNoXf>>

\* let buffer = RingBuffer::new(frames.len().max(1));
XfNew ==
    /\ ~xf.active \/ xf.extracted
    /\ \E frames \in FrameSlices :
          /\ xf' = [active |-> TRUE, frames |-> frames, extracted |-> FALSE]
          /\ capacity' = Max(Len(frames), 1)
          /\ storage' = [i \in 0..(capacity' - 1) |-> DefaultFrame]
    /\ head' = 0
    /\ tail' = 0
    /\ total_written' = 0
    /\ pushed' = <<>>
    /\ rl' = [called |-> FALSE, count |-> 0, len |-> 0, frames |-> <<>>]
    /\ UNCHANGED XfUnchanged

\* for frame in frames { buffer.push(frame.clone()); }
XfPush ==
    /\ xf.active /\ ~xf.extracted
    /\ Len(pushed) < Len(xf.frames)
    /\ Push(xf.frames[Len(pushed) + 1])
    /\ UNCHANGED <<xf, XfUnchanged>>

\* self.extract(&buffer)
XfExtract ==
    /\ xf.active /\ ~xf.extracted
    /\ Len(pushed) = Len(xf.frames)
    /\ ReadLast(RingLen)
    /\ xf' = [xf EXCEPT !.extracted = TRUE]
    /\ UNCHANGED XfUnchanged

XfNext == XfNew \/ XfPush \/ XfExtract

(***************************************************************************)
(* Ring buffer, read_window.  Frame k of the history has timestamp_ms      *)
(* stamps[k]; SystemTime::now() is an input of the call.                   *)
(***************************************************************************)
MaxStamp    == 2     \* timestamps 0..MaxStamp, in ms
MaxNow      == 3     \* system times 0..MaxNow, in ms
MaxDuration == 4     \* duration_ms 0..MaxDuration
MaxStamped  == 4     \* frames pushed before a read_window

NoWindowRead == [called |-> FALSE, duration_ms |-> 0, now |-> 0, frames |-> <<>>]

RwinInit ==
    /\ stamps = <<>>
    /\ rw = NoWindowRead

TimestampOf(frame) == IF frame = DefaultFrame THEN 0 ELSE stamps[frame]

\* now.saturating_sub(duration_ms)
Cutoff(now, duration_ms) == IF now >= duration_ms THEN now - duration_ms ELSE 0

\* the window test with > for >=
InWindowStrict(frame, cutoff) == TimestampOf(frame) > cutoff

\* |f| f.timestamp_ms >= cutoff
InWindow(frame, cutoff) == TimestampOf(frame) >= cutoff

\* .take_while(..): the longest prefix of frames inside the window
RECURSIVE TakeWhileInWindow(_, _)
TakeWhileInWindow(frames, cutoff) ==
    IF frames # <<>> /\ InWindow(Head(frames), cutoff)
    THEN <<Head(frames)>> \o TakeWhileInWindow(Tail(frames), cutoff)
    ELSE <<>>

ReadWindow(duration_ms, now) ==
    /\ rw' = [called |-> TRUE, duration_ms |-> duration_ms, now |-> now,
              frames |-> TakeWhileInWindow(ReadLastFrames(RingLen),
                                           Cutoff(now, duration_ms))]
    /\ UNCHANGED <<ringVars, stamps>>

RingPushStamped ==
    /\ Len(pushed) < MaxStamped
    /\ Push(Len(pushed) + 1)
    /\ \E ts \in 0..MaxStamp : stamps' = Append(stamps, ts)
    /\ rw' = NoWindowRead
    /\ UNCHANGED <<alertVars, fusionVars, batchVars, schedVars, extNoRwin>>
RingReadWindow ==
    /\ \E duration_ms \in 0..MaxDuration, now \in 0..MaxNow :
          ReadWindow(duration_ms, now)
    /\ UNCHANGED <<alertVars, fusionVars, batchVars, schedVars, extNoRwin>>
RingClearStamped ==
    /\ Clear
    /\ rw' = NoWindowRead
    /\ UNCHANGED <<stamps, alertVars, fusionVars, batchVars, schedVars, extNoRwin>>
RwinNext == RingPushStamped \/ RingReadWindow \/ RingClearStamped

(***************************************************************************)
(* Alert manager.  Confidences are in hundredths (0.75 is 75), instants    *)
(* and durations in seconds.                                               *)
(***************************************************************************)
Labels      == {"overheating", "misfire"}
Confidences == {74, 75}
HourSecs    == 3600
MaxTicks    == 2     \* clock advances in one run
MaxFires    == 2     \* record_fire calls in one run
TimeSteps   == {1, 3600}
NoTime      == 0 - 1
NoCall      == [called |-> FALSE, label |-> "", confidence |-> 0, time |-> 0,
                result |-> FALSE, gate |-> "", fired_at |-> NoTime]
NoState     == [present |-> FALSE, last_fired |-> 0, fire_count |-> 0,
                acknowledged |-> FALSE]

AlertConfigs ==
    [confidence_threshold : {75}, critical_threshold : {90},
     cooldown_seconds : {2, 1800}, max_alerts_per_hour : {1, 3}]

\* AlertManager::new but for the config it is given
AlertStart ==
    /\ states = [l \in Labels |-> NoState]
    /\ hourly_count = 0
    /\ hour_start = 0
    /\ clock = 0
    /\ ticks = 0
    /\ fired_at = [l \in Labels |-> NoTime]
    /\ fire_log = <<>>
    /\ epoch = 0
    /\ disciplined = TRUE
    /\ cleared = FALSE
    /\ last_call = NoCall

AlertInit ==
    /\ config \in AlertConfigs
    /\ AlertStart

\* the hour has elapsed: should_fire resets the counter first
HourElapsed == clock - hour_start > HourSecs

CountAfterReset == IF HourElapsed THEN 0 ELSE hourly_count

\* no throttle gate
ThrottledNever == FALSE

\* the throttle gate with > for >=
ThrottledLate == CountAfterReset > config.max_alerts_per_hour

Throttled == CountAfterReset >= config.max_alerts_per_hour

\* the cooldown gate with the comparison reversed
InCooldownReversed(l) ==
    /\ states[l].present
    /\ clock - states[l].last_fired > config.cooldown_seconds

InCooldown(l) ==
    /\ states[l].present
    /\ clock - states[l].last_fired < config.cooldown_seconds

\* the gates with a confidence equal to the threshold rejected
GateConfidenceStrict(l, c) ==
    IF c <= config.confidence_threshold THEN "confidence"
    ELSE IF Throttled THEN "throttle"
    ELSE IF InCooldown(l) THEN "cooldown"
    ELSE "fire"

\* which gate decides should_fire(l, c): the first that rejects, or "fire"
Gate(l, c) ==
    IF c < config.confidence_threshold THEN "confidence"
    ELSE IF Throttled THEN "throttle"
    ELSE IF InCooldown(l) THEN "cooldown"
    ELSE "fire"

ShouldFire(l, c) ==
    LET g == Gate(l, c)
        reset == c >= config.confidence_threshold /\ HourElapsed
    IN  /\ hourly_count' = IF reset THEN 0 ELSE hourly_count
        /\ hour_start' = IF reset THEN clock ELSE hour_start
        /\ epoch' = IF reset THEN epoch + 1 ELSE epoch
        /\ last_call' = [called |-> TRUE, label |-> l, confidence |-> c,
                         time |-> clock, result |-> (g = "fire"), gate |-> g,
                         fired_at |-> fired_at[l]]
        /\ UNCHANGED <<config, states, clock, ticks, fired_at, fire_log,
                       disciplined, cleared>>

RecordFire(l) ==
    /\ Len(fire_log) < MaxFires
    /\ hourly_count' = hourly_count + 1
    /\ states' = [states EXCEPT ![l] =
                    [present |-> TRUE, last_fired |-> clock,
                     fire_count |-> @.fire_count + 1, acknowledged |-> FALSE]]
    /\ fired_at' = [fired_at EXCEPT ![l] =
                      IF last_call.called /\ last_call.label = l /\ last_call.result
                      THEN last_call.time ELSE NoTime]
    /\ fire_log' = Append(fire_log, <<clock, epoch>>)
    /\ disciplined' = (disciplined /\ last_call.called /\ last_call.label = l
                        /\ last_call.result)
    /\ last_call' = NoCall
    /\ UNCHANGED <<config, hour_start, clock, ticks, epoch,
                   cleared>>

Acknowledge(l) ==
    /\ states[l].present
    /\ ~states[l].acknowledged
    /\ states' = [states EXCEPT ![l].acknowledged = TRUE]
    /\ UNCHANGED <<config, hourly_count, hour_start, clock, ticks,
                   fired_at, fire_log, epoch, disciplined, cleared, last_call>>

AlertClear ==
    /\ \E l \in Labels : states[l].present
    /\ states' = [l \in Labels |-> NoState]
    /\ hourly_count' = 0
    /\ fired_at' = [l \in Labels |-> NoTime]
    /\ last_call' = NoCall
    /\ cleared' = TRUE
    /\ UNCHANGED <<config, hour_start, clock, ticks, fire_log, epoch,
                   disciplined>>

AlertTick ==
    /\ ticks < MaxTicks
    /\ \E d \in TimeSteps : clock' = clock + d
    /\ ticks' = ticks + 1
    /\ UNCHANGED <<config, states, hourly_count, hour_start,
                   fired_at, fire_log, epoch, disciplined, cleared, last_call>>

AlertShouldFire ==
    (\E l \in Labels, c \in Confidences : ShouldFire(l, c)) /\ UNCHANGED <<ringVars, fusionVars, batchVars, schedVars, extVars>>
AlertRecordFire  == (\E l \in Labels : RecordFire(l)) /\ UNCHANGED <<ringVars, fusionVars, batchVars, schedVars, extVars>>
AlertAcknowledge == (\E l \in Labels : Acknowledge(l)) /\ UNCHANGED <<ringVars, fusionVars, batchVars, schedVars, extVars>>
AlertClearAll    == AlertClear /\ UNCHANGED <<ringVars, fusionVars, batchVars, schedVars, extVars>>
AlertAdvance     == AlertTick /\ UNCHANGED <<ringVars, fusionVars, batchVars, schedVars, extVars>>
\* get_severity, for the default configuration and for others whose
\* thresholds lie on either side of the fixed 0.85
AlertDefault ==
    [confidence_threshold |-> 75, critical_threshold |-> 90,
     cooldown_seconds |-> 1800, max_alerts_per_hour |-> 10]

SeverityConfigs ==
    {AlertDefault} \cup
    [confidence_threshold : {50, 86}, critical_threshold : {80, 90},
     cooldown_seconds : {2}, max_alerts_per_hour : {1}]

SeverityConfidences == {49, 50, 74, 75, 79, 80, 84, 85, 86, 89, 90, 95}

NoSeverity == [called |-> FALSE, confidence |-> 0, severity |-> ""]

SevInit == sev = NoSeverity

\* get_severity with a confidence equal to confidence_threshold rated low
GetSeverityMediumStrict(confidence) ==
    IF confidence >= config.critical_threshold THEN "critical"
    ELSE IF confidence >= 85 THEN "high"
    ELSE IF confidence > config.confidence_threshold THEN "medium"
    ELSE "low"

GetSeverity(confidence) ==
    IF confidence >= config.critical_threshold THEN "critical"
    ELSE IF confidence >= 85 THEN "high"
    ELSE IF confidence >= config.confidence_threshold THEN "medium"
    ELSE "low"

\* get_severity(c) on its own
SevGetSeverity ==
    /\ \E c \in SeverityConfidences :
          sev' = [called |-> TRUE, confidence |-> c, severity |-> GetSeverity(c)]
    /\ UNCHANGED <<alertVars, ringVars, fusionVars, batchVars, schedVars, extNoSev>>

\* a prediction (l, c) is rated with get_severity(c) and offered to
\* should_fire(l, c)
SevShouldFire ==
    /\ \E l \in Labels, c \in SeverityConfidences :
          /\ ShouldFire(l, c)
          /\ sev' = [called |-> TRUE, confidence |-> c,
                     severity |-> GetSeverity(c)]
    /\ UNCHANGED <<ringVars, fusionVars, batchVars, schedVars, extNoSev>>

SevNext == SevGetSeverity \/ SevShouldFire \/ AlertRecordFire

\* record_fire and acknowledge as calls, with what they return
NoOp == [op |-> "none", label |-> "", result |-> FALSE,
         states |-> [l \in Labels |-> NoState], hourly_count |-> 0]

AopInit == aop = NoOp

OpsUnchanged == <<ringVars, fusionVars, batchVars, schedVars, extOld, lateNoAop>>

\* acknowledge reports success whatever it found
AckResultAlways(l) == TRUE

\* if let Some(state) = self.states.get_mut(fault_type) { .. true } else { false }
AckResult(l) == states[l].present

AcknowledgeCall(l) ==
    /\ states' = IF states[l].present
                 THEN [states EXCEPT ![l].acknowledged = TRUE]
                 ELSE states
    /\ aop' = [op |-> "acknowledge", label |-> l, result |-> AckResult(l),
               states |-> states, hourly_count |-> hourly_count]
    /\ UNCHANGED <<config, hourly_count, hour_start, clock, ticks,
                   fired_at, fire_log, epoch, disciplined, cleared, last_call>>

OpsAcknowledge ==
    (\E l \in Labels : AcknowledgeCall(l)) /\ UNCHANGED OpsUnchanged

OpsRecordFire ==
    /\ \E l \in Labels :
          /\ RecordFire(l)
          /\ aop' = [op |-> "record_fire", label |-> l, result |-> TRUE,
                     states |-> states, hourly_count |-> hourly_count]
    /\ UNCHANGED OpsUnchanged

OpsShouldFire ==
    /\ \E l \in Labels, c \in Confidences : ShouldFire(l, c)
    /\ aop' = NoOp
    /\ UNCHANGED OpsUnchanged

OpsClear == AlertClear /\ aop' = NoOp /\ UNCHANGED OpsUnchanged

OpsAdvance == AlertTick /\ aop' = NoOp /\ UNCHANGED OpsUnchanged

OpsNext ==
    OpsRecordFire \/ OpsAcknowledge \/ OpsShouldFire \/ OpsClear
        \/ OpsAdvance

AlertNext ==
    AlertShouldFire \/ AlertRecordFire \/ AlertAcknowledge \/ AlertClearAll
        \/ AlertAdvance

(***************************************************************************)
(* Event fusion.  Accelerations are in tenths of g (3.0 g is 30), the      *)
(* drowsiness level is its discriminant (Normal 0 .. High 3).  Only the    *)
(* fields fuse() reads are kept of each sample.  The windows hold the      *)
(* newest ObdWindowCap, ... samples (300, 150, 60 and 1000 in new()).      *)
(***************************************************************************)
ObdWindowCap  == 1
DmsWindowCap  == 1
AdasWindowCap == 1
ImuWindowCap  == 1

ImuSamples  == [g_force : {30, 32}, accel_x : {0 - 5, 4}]
ObdFrames   == [brake_pedal : {80, 81}, speed_kmh : {60}]
DmsSamples  == [drowsiness_level : {1, 2}]
\* of AdasAnalysis: lane_state.departing and the limit of the SpeedLimit
\* sign in signs
AdasSamples == [departing : BOOLEAN, limit_kmh : {40, 50}]
Drivers     == {"none", "driver-1"}
NoEvent     == [kind |-> "None"]
NotFused    == [called |-> FALSE, event |-> NoEvent]

FusionDefault == [hard_brake_g |-> 4, crash_g |-> 30, speeding_threshold_kmh |-> 10]

FusionInit ==
    /\ obd_window = <<>>
    /\ dms_window = <<>>
    /\ adas_window = <<>>
    /\ imu_window = <<>>
    /\ fusion_config = FusionDefault
    /\ driver_id = "none"
    /\ fused = NotFused

\* a push that never evicts
WindowPushKeepsAll(data, cap, item) == Append(data, item)

\* SlidingWindow::push
WindowPush(data, cap, item) ==
    Append(IF Len(data) >= cap THEN Tail(data) ELSE data, item)

\* SlidingWindow::back is data[Len(data)] when the window is not empty
IsCrash ==
    /\ Len(imu_window) > 0
    /\ imu_window[Len(imu_window)].g_force > fusion_config.crash_g

IsHardBraking ==
    /\ Len(imu_window) > 0
    /\ Abs(imu_window[Len(imu_window)].accel_x) > fusion_config.hard_brake_g
    /\ Len(obd_window) > 0
    /\ obd_window[Len(obd_window)].brake_pedal > 80

IsDrowsyDeparture ==
    /\ Len(dms_window) > 0
    /\ Len(adas_window) > 0
    /\ dms_window[Len(dms_window)].drowsiness_level >= 2
    /\ adas_window[Len(adas_window)].departing

CrashEvent ==
    [kind |-> "Crash", severity |-> "Critical",
     g_force |-> imu_window[Len(imu_window)].g_force, airbag_deployed |-> FALSE]

HardBrakingEvent ==
    [kind |-> "HardBraking", severity |-> "Medium",
     decel_g |-> Abs(imu_window[Len(imu_window)].accel_x),
     speed_before_kmh |-> obd_window[Len(obd_window)].speed_kmh]

DrowsyDepartureEvent ==
    [kind |-> "DrowsinessLaneDeparture", severity |-> "High", eyes_closed_ms |-> 0]

\* fuse() with the hard-braking check moved in front of the crash check
FuseResultBrakingFirst ==
    IF IsHardBraking THEN HardBrakingEvent
    ELSE IF IsCrash THEN CrashEvent
    ELSE IF IsDrowsyDeparture THEN DrowsyDepartureEvent
    ELSE NoEvent

\* fuse() that reports nothing while no driver is set
FuseResultNeedsDriver ==
    IF driver_id = "none" THEN NoEvent
    ELSE IF IsCrash THEN CrashEvent
    ELSE IF IsHardBraking THEN HardBrakingEvent
    ELSE IF IsDrowsyDeparture THEN DrowsyDepartureEvent
    ELSE NoEvent

FuseResult ==
    IF IsCrash THEN CrashEvent
    ELSE IF IsHardBraking THEN HardBrakingEvent
    ELSE IF IsDrowsyDeparture THEN DrowsyDepartureEvent
    ELSE NoEvent

AddObd(frame) ==
    /\ obd_window' = WindowPush(obd_window, ObdWindowCap, frame)
    /\ fused' = NotFused
    /\ UNCHANGED <<dms_window, adas_window, imu_window, fusion_config, driver_id>>

AddDms(analysis) ==
    /\ dms_window' = WindowPush(dms_window, DmsWindowCap, analysis)
    /\ fused' = NotFused
    /\ UNCHANGED <<obd_window, adas_window, imu_window, fusion_config, driver_id>>

AddAdas(analysis) ==
    /\ adas_window' = WindowPush(adas_window, AdasWindowCap, analysis)
    /\ fused' = NotFused
    /\ UNCHANGED <<obd_window, dms_window, imu_window, fusion_config, driver_id>>

AddImu(data) ==
    /\ imu_window' = WindowPush(imu_window, ImuWindowCap, data)
    /\ fused' = NotFused
    /\ UNCHANGED <<obd_window, dms_window, adas_window, fusion_config, driver_id>>

SetDriver(d) ==
    /\ driver_id' = d
    /\ UNCHANGED <<obd_window, dms_window, adas_window, imu_window,
                   fusion_config, fused>>

Fuse ==
    /\ fused' = [called |-> TRUE, event |-> FuseResult]
    /\ UNCHANGED <<obd_window, dms_window, adas_window, imu_window,
                   fusion_config, driver_id>>

Sources == {"obd", "dms", "adas", "imu"}

WindowOf(src) ==
    IF src = "obd" THEN obd_window
    ELSE IF src = "dms" THEN dms_window
    ELSE IF src = "adas" THEN adas_window
    ELSE imu_window

NoAdd == [called |-> FALSE]

FusionGhostInit ==
    /\ stale = [src \in Sources |-> FALSE]
    /\ last_add = NoAdd

\* time passes with no new sample of src: its newest sample grows older than
\* the staleness budget of src; fuse() has no clock and the engine keeps
\* the sample
GrowStale(src) ==
    /\ Len(WindowOf(src)) > 0
    /\ ~stale[src]
    /\ stale' = [stale EXCEPT ![src] = TRUE]
    /\ fused' = NotFused
    /\ UNCHANGED <<obd_window, dms_window, adas_window, imu_window,
                   fusion_config, driver_id>>

FusionAddObd ==
    /\ \E f \in ObdFrames :
          /\ AddObd(f)
          /\ last_add' = [called |-> TRUE, source |-> "obd", item |-> f,
                          full |-> Len(obd_window) >= ObdWindowCap]
    /\ stale' = [stale EXCEPT !["obd"] = FALSE]
    /\ UNCHANGED <<ringVars, alertVars, batchVars, schedVars, extNoFusion>>
FusionAddDms ==
    /\ \E a \in DmsSamples :
          /\ AddDms(a)
          /\ last_add' = [called |-> TRUE, source |-> "dms", item |-> a,
                          full |-> Len(dms_window) >= DmsWindowCap]
    /\ stale' = [stale EXCEPT !["dms"] = FALSE]
    /\ UNCHANGED <<ringVars, alertVars, batchVars, schedVars, extNoFusion>>
FusionAddAdas ==
    /\ \E a \in AdasSamples :
          /\ AddAdas(a)
          /\ last_add' = [called |-> TRUE, source |-> "adas", item |-> a,
                          full |-> Len(adas_window) >= AdasWindowCap]
    /\ stale' = [stale EXCEPT !["adas"] = FALSE]
    /\ UNCHANGED <<ringVars, alertVars, batchVars, schedVars, extNoFusion>>
FusionAddImu ==
    /\ \E d \in ImuSamples :
          /\ AddImu(d)
          /\ last_add' = [called |-> TRUE, source |-> "imu", item |-> d,
                          full |-> Len(imu_window) >= ImuWindowCap]
    /\ stale' = [stale EXCEPT !["imu"] = FALSE]
    /\ UNCHANGED <<ringVars, alertVars, batchVars, schedVars, extNoFusion>>
FusionSetDriver ==
    (\E d \in Drivers : SetDriver(d)) /\ UNCHANGED <<ringVars, alertVars, batchVars, schedVars, extNoFusion, fghostVars>>
FusionFuse ==
    Fuse /\ UNCHANGED <<ringVars, alertVars, batchVars, schedVars, extNoFusion, fghostVars>>
FusionGrowStale ==
    /\ \E src \in Sources : GrowStale(src)
    /\ UNCHANGED <<ringVars, alertVars, batchVars, schedVars, extNoFusion, last_add>>
FusionNext ==
    FusionAddObd \/ FusionAddDms \/ FusionAddAdas \/ FusionAddImu
        \/ FusionSetDriver \/ FusionFuse \/ FusionGrowStale

(***************************************************************************)
(* Inference batcher.  One step per await of run(); the task is resumed as *)
(* soon as what it awaits is ready, so the clock advances only while the   *)
(* task is blocked on the channel or the classifier is computing.          *)
(***************************************************************************)
MaxBatch == 3     \* batch sizes 1..MaxBatch are explored
MaxItems == 4     \* feature vectors sent in one run
MaxTime  == 5     \* the clock stops there

BatcherConfigs == [batch_size : 1..MaxBatch, timeout_ms : {2}]

\* InferenceBatcher::channel: capacity batch_size * 2
ChanCapacity == batcher.batch_size * 2

BatcherInit ==
    /\ batcher \in BatcherConfigs
    /\ chan = <<>>
    /\ chan_closed = FALSE
    /\ bpc = "recv_first"
    /\ batch = <<>>
    /\ deadline = 0
    /\ btime = 0
    /\ n_sent = 0
    /\ first_at = 0
    /\ collect_end = 0
    /\ submitted = <<>>

\* the inner while loop with <= for <: it asks for one vector too many
AfterPushOverfill(b) ==
    IF Len(b) <= batcher.batch_size
    THEN /\ bpc' = "collect"
         /\ deadline' = btime + batcher.timeout_ms
         /\ UNCHANGED collect_end
    ELSE /\ bpc' = "process"
         /\ collect_end' = btime
         /\ UNCHANGED deadline

\* what the inner while loop does once the batch holds b: leave when it is
\* full, else start a new timeout(timeout_duration, recv())
AfterPush(b) ==
    IF Len(b) < batcher.batch_size
    THEN /\ bpc' = "collect"
         /\ deadline' = btime + batcher.timeout_ms
         /\ UNCHANGED collect_end
    ELSE /\ bpc' = "process"
         /\ collect_end' = btime
         /\ UNCHANGED deadline

\* tx.send(v).await of a producer; it waits while the channel is full
Send ==
    /\ ~chan_closed
    /\ n_sent < MaxItems
    /\ Len(chan) < ChanCapacity
    /\ chan' = Append(chan, n_sent + 1)
    /\ n_sent' = n_sent + 1
    /\ UNCHANGED <<batcher, chan_closed, bpc, batch, deadline, btime,
                   first_at, collect_end, submitted>>

\* the last Sender is dropped
CloseChannel ==
    /\ ~chan_closed
    /\ chan_closed' = TRUE
    /\ UNCHANGED <<batcher, chan, bpc, batch, deadline, btime, n_sent,
                   first_at, collect_end, submitted>>

\* self.receiver.recv().await returns Some(features)
RecvFirst ==
    /\ bpc = "recv_first"
    /\ chan # <<>>
    /\ batch' = <<Head(chan)>>
    /\ chan' = Tail(chan)
    /\ first_at' = btime
    /\ AfterPush(batch')
    /\ UNCHANGED <<batcher, chan_closed, btime, n_sent, submitted>>

\* self.receiver.recv().await returns None
RecvFirstClosed ==
    /\ bpc = "recv_first"
    /\ chan = <<>>
    /\ chan_closed
    /\ bpc' = "stopped"
    /\ UNCHANGED <<batcher, chan, chan_closed, batch, deadline, btime, n_sent,
                   first_at, collect_end, submitted>>

\* timeout(..).await returns Ok(Some(features))
CollectRecv ==
    /\ bpc = "collect"
    /\ chan # <<>>
    /\ batch' = Append(batch, Head(chan))
    /\ chan' = Tail(chan)
    /\ AfterPush(batch')
    /\ UNCHANGED <<batcher, chan_closed, btime, n_sent, first_at, submitted>>

\* a break that abandons the batch collected so far
CollectBreakDiscards ==
    /\ bpc = "collect"
    /\ chan = <<>>
    /\ chan_closed \/ btime >= deadline
    /\ bpc' = "recv_first"
    /\ batch' = <<>>
    /\ collect_end' = btime
    /\ UNCHANGED <<batcher, chan, chan_closed, deadline, btime, n_sent,
                   first_at, submitted>>

\* timeout(..).await returns Ok(None), or Err(_) once the deadline is reached
CollectBreak ==
    /\ bpc = "collect"
    /\ chan = <<>>
    /\ chan_closed \/ btime >= deadline
    /\ bpc' = "process"
    /\ collect_end' = btime
    /\ UNCHANGED <<batcher, chan, chan_closed, batch, deadline, btime, n_sent,
                   first_at, submitted>>

\* engine.predict(features).await for the next vector of the batch
Predict ==
    /\ bpc = "process"
    /\ submitted' = Append(submitted, Head(batch))
    /\ batch' = Tail(batch)
    /\ bpc' = IF Len(batch) = 1 THEN "recv_first" ELSE "process"
    /\ UNCHANGED <<batcher, chan, chan_closed, deadline, btime, n_sent,
                   first_at, collect_end>>

BatcherBlocked ==
    \/ bpc = "recv_first" /\ chan = <<>> /\ ~chan_closed
    \/ bpc = "collect" /\ chan = <<>> /\ ~chan_closed /\ btime < deadline
    \/ bpc = "process"
    \/ bpc = "stopped"

BatcherTick ==
    /\ btime < MaxTime
    /\ BatcherBlocked
    /\ btime' = btime + 1
    /\ UNCHANGED <<batcher, chan, chan_closed, bpc, batch, deadline, n_sent,
                   first_at, collect_end, submitted>>

\* engine.predict answers Ok(result) or Err(e); run() logs either
PredictResults == {"ok", "err"}

NoPredict == [called |-> FALSE, vector |-> 0, result |-> "ok"]

BatcherGhostInit ==
    /\ closed_in = "open"
    /\ last_predict = NoPredict

BatcherSend ==
    Send /\ UNCHANGED <<ringVars, alertVars, fusionVars, schedVars, extNoBatch, bghostVars>>
BatcherCloseChannel ==
    /\ CloseChannel
    /\ closed_in' = bpc
    /\ UNCHANGED <<ringVars, alertVars, fusionVars, schedVars, extNoBatch, last_predict>>
BatcherRecvFirst ==
    RecvFirst /\ UNCHANGED <<ringVars, alertVars, fusionVars, schedVars, extNoBatch, bghostVars>>
BatcherRecvClosed ==
    RecvFirstClosed /\ UNCHANGED <<ringVars, alertVars, fusionVars, schedVars, extNoBatch, bghostVars>>
BatcherCollectRecv ==
    CollectRecv /\ UNCHANGED <<ringVars, alertVars, fusionVars, schedVars, extNoBatch, bghostVars>>
BatcherCollectBreak ==
    CollectBreak /\ UNCHANGED <<ringVars, alertVars, fusionVars, schedVars, extNoBatch, bghostVars>>
BatcherPredict ==
    /\ Predict
    /\ \E r \in PredictResults :
          last_predict' = [called |-> TRUE, vector |-> Head(batch), result |-> r]
    /\ UNCHANGED <<ringVars, alertVars, fusionVars, schedVars, extNoBatch, closed_in>>
BatcherAdvance ==
    BatcherTick /\ UNCHANGED <<ringVars, alertVars, fusionVars, schedVars, extNoBatch, bghostVars>>
BatcherNext ==
    BatcherSend \/ BatcherCloseChannel \/ BatcherRecvFirst \/ BatcherRecvClosed
        \/ BatcherCollectRecv \/ BatcherCollectBreak \/ BatcherPredict
        \/ BatcherAdvance

(***************************************************************************)
(* PID scheduler.  Rates are in tenths of Hz (5 Hz is 50), instants and    *)
(* durations in ms.  The code only compares and subtracts instants, so     *)
(* every next_query is kept relative to the current instant: an iteration  *)
(* that ends `now` ms later moves every entry `now` ms closer.  A query    *)
(* answers within the millisecond (query_pid has no await that waits).     *)
(***************************************************************************)
Pids == {"Rpm", "Speed", "CoolantTemp", "EngineLoad", "Maf", "ShortFuelTrim",
         "LongFuelTrim", "O2Voltage"}

\* construction order in PidScheduler::new
PidOrder == <<"Rpm", "Speed", "CoolantTemp", "EngineLoad", "Maf",
              "ShortFuelTrim", "LongFuelTrim", "O2Voltage">>

U8Max          == 255
MaxInitSkew    == 1    \* ms between two Instant::now() of the constructor
MaxFailures    == 2    \* failures in a row of a PID behind a flaky adapter
FrameChanCap   == 1    \* capacity of the frame channel
FlakyPids      == {"CoolantTemp"}
CoolantValues  == {94, 95, 96}
\* query_pid answers Ok for every query of a connected mock adapter and
\* Err(AdapterNotResponding) for every query otherwise; "flaky" stands for
\* an adapter behind the same interface that fails some queries of a PID
ClientModes    == {"mock", "not_responding", "flaky"}

\* Pid::sampling_priority
SamplingPriority(pid) ==
    IF pid \in {"Rpm", "Speed", "CoolantTemp", "EngineLoad"} THEN 10
    ELSE IF pid = "Maf" THEN 5
    ELSE 2

SchedulerDefault ==
    [base_rate_hz |-> 50, max_retries |-> 3, retry_backoff_ms |-> 100,
     coolant_boost_threshold |-> 95, boost_multiplier |-> 2]

\* the rate PidScheduler::new gives each PID
InitialRate(pid) ==
    IF pid \in {"Rpm", "Speed", "CoolantTemp", "EngineLoad"}
    THEN sched_config.base_rate_hz
    ELSE IF pid = "Maf" THEN 10
    ELSE 5

\* ScheduledPid::interval, in ms
Interval(rate_hz) == 10000 \div rate_hz

BoostedRate == sched_config.base_rate_hz * sched_config.boost_multiplier

\* a > b in the reverse of Ord for ScheduledPid: later next_query wins
GreaterLatestFirst(a, b) ==
    \/ a.next_query > b.next_query
    \/ a.next_query = b.next_query /\ a.priority > b.priority

\* a > b in Ord for ScheduledPid
Greater(a, b) ==
    \/ b.next_query > a.next_query
    \/ a.next_query = b.next_query /\ a.priority > b.priority

\* BinaryHeap::pop returns a greatest entry
PopCandidates == {a \in queue : \A b \in queue : ~Greater(b, a)}

\* the boost test with >= for >
BoostsAtThreshold(value) == value >= sched_config.coolant_boost_threshold

Boosts(value) == value > sched_config.coolant_boost_threshold

\* the rate after a successful query that returned value
RateAfterOk(scheduled, value) ==
    IF scheduled.pid = "CoolantTemp" /\ Boosts(value)
    THEN BoostedRate
    ELSE scheduled.rate_hz

Shift(entries, d) == {[e EXCEPT !.next_query = @ - d] : e \in entries}

NoIter == [called |-> FALSE]

SchedInit ==
    /\ sched_config = SchedulerDefault
    /\ \E skew \in 0..MaxInitSkew :
          queue = {[pid |-> PidOrder[i], rate_hz |-> InitialRate(PidOrder[i]),
                    next_query |-> 0 - (Len(PidOrder) - i) * skew,
                    priority |-> SamplingPriority(PidOrder[i]),
                    failures |-> 0] : i \in 1..Len(PidOrder)}
    /\ running = FALSE
    /\ last_coolant_temp = 0
    /\ current_frame = {}
    /\ frame_chan = <<>>
    /\ client \in ClientModes
    \* the profile only matters once a counter reaches U8Max, which takes
    \* an adapter that never responds
    /\ overflow_checks \in (IF client = "not_responding" THEN BOOLEAN ELSE {FALSE})
    /\ panicked = FALSE
    /\ last_iter = NoIter

\* run() up to its loop
RunStart ==
    /\ ~running
    /\ running' = TRUE
    /\ UNCHANGED <<queue, sched_config, last_coolant_temp, current_frame,
                   frame_chan, client, overflow_checks, panicked, last_iter>>

\* whether client.query_pid can answer Ok / Err for this entry
CanAnswerOk(scheduled) ==
    \/ client = "mock"
    \/ client = "flaky"

CanAnswerErr(scheduled) ==
    \/ client = "not_responding"
    \/ /\ client = "flaky"
       /\ scheduled.pid \in FlakyPids
       /\ scheduled.failures < MaxFailures

\* frame_tx.try_send: dropped when the channel is full
TrySend(frame) ==
    IF Len(frame_chan) < FrameChanCap THEN Append(frame_chan, frame)
    ELSE frame_chan

\* one iteration of the loop that pops `scheduled`, whose query answers
\* Ok(value)
IterationOkAt(scheduled, value, now) ==
    LET others == queue \ {scheduled}
        requeued == [scheduled EXCEPT !.failures = 0,
                                   !.rate_hz = RateAfterOk(scheduled, value),
                                   !.next_query =
                                       now + Interval(RateAfterOk(scheduled, value))]
    IN  /\ current_frame' = current_frame \cup {scheduled.pid}
        /\ last_coolant_temp' =
              IF scheduled.pid = "CoolantTemp" THEN value ELSE last_coolant_temp
        /\ frame_chan' = TrySend(current_frame')
        /\ queue' = Shift(others \cup {requeued}, now)
        /\ last_iter' = [called |-> TRUE, ok |-> TRUE, value |-> value,
                         now |-> now, popped |-> scheduled, pushed |-> requeued,
                         others |-> others]
        /\ UNCHANGED <<sched_config, running, client, overflow_checks, panicked>>

\* the same with a sleep that returns at its deadline
IterationOk(scheduled, value) ==
    IterationOkAt(scheduled, value, Max(0, scheduled.next_query))

\* one iteration of the loop that pops `scheduled`, whose query answers Err
IterationErr(scheduled) ==
    LET now    == Max(0, scheduled.next_query)
        others == queue \ {scheduled}
        requeued == [scheduled EXCEPT !.failures = (@ + 1) % (U8Max + 1),
                                   !.next_query = now + Interval(scheduled.rate_hz)]
    IN  IF scheduled.failures = U8Max /\ overflow_checks
        THEN \* failures += 1 panics: the popped entry is dropped with run()
             /\ panicked' = TRUE
             /\ queue' = Shift(others, now)
             /\ last_iter' = [called |-> TRUE, ok |-> FALSE, value |-> 0,
                              now |-> now, popped |-> scheduled,
                              pushed |-> scheduled, others |-> others]
             /\ UNCHANGED <<sched_config, running, last_coolant_temp,
                            current_frame, frame_chan, client, overflow_checks>>
        ELSE /\ queue' = Shift(others \cup {requeued}, now)
             /\ last_iter' = [called |-> TRUE, ok |-> FALSE, value |-> 0,
                              now |-> now, popped |-> scheduled,
                              pushed |-> requeued, others |-> others]
             /\ UNCHANGED <<sched_config, running, last_coolant_temp,
                            current_frame, frame_chan, client, overflow_checks,
                            panicked>>

RunIterationOk ==
    /\ running
    /\ ~panicked
    /\ \E scheduled \in PopCandidates :
          /\ CanAnswerOk(scheduled)
          /\ \E value \in (IF scheduled.pid = "CoolantTemp" THEN CoolantValues
                            ELSE {0}) :
                IterationOk(scheduled, value)

RunIterationErr ==
    /\ running
    /\ ~panicked
    /\ \E scheduled \in PopCandidates :
          /\ CanAnswerErr(scheduled)
          /\ IterationErr(scheduled)

\* the task behind the frame channel takes a frame
FrameRecv ==
    /\ frame_chan # <<>>
    /\ frame_chan' = Tail(frame_chan)
    /\ UNCHANGED <<queue, sched_config, running, last_coolant_temp,
                   current_frame, client, overflow_checks, panicked, last_iter>>

\* the failure counts stop at StreakCap, one more than a u8 can hold
StreakCap == U8Max + 2

SchedGhostInit == fail_streak = [pid \in Pids |-> 0]

\* the streak of the PID the iteration popped ends or grows by one
StreakAfter(iter) ==
    [fail_streak EXCEPT ![iter.popped.pid] =
        IF iter.ok THEN 0 ELSE Min(@ + 1, StreakCap)]

SchedRunStart  == RunStart /\ UNCHANGED <<ringVars, alertVars, fusionVars, batchVars, extVars>>
SchedQueryOk ==
    /\ RunIterationOk
    /\ fail_streak' = StreakAfter(last_iter')
    /\ UNCHANGED <<ringVars, alertVars, fusionVars, batchVars, extNoSched>>
SchedQueryErr ==
    /\ RunIterationErr
    /\ fail_streak' = StreakAfter(last_iter')
    /\ UNCHANGED <<ringVars, alertVars, fusionVars, batchVars, extNoSched>>
SchedFrameRecv == FrameRecv /\ UNCHANGED <<ringVars, alertVars, fusionVars, batchVars, extVars>>
\* The values in current_frame.  A response is stamped with the number of
\* the answer it is (1, 2, ..), standing for its timestamp_ms.
MaxResponses == 10   \* successful responses in one run

\* SensorFrame::new(0)
NewFrame == [fields |-> [pid \in Pids |-> 0], timestamp_ms |-> 0]

DataInit ==
    /\ cur = NewFrame
    /\ decoded = [pid \in Pids |-> 0]
    /\ offers = 0
    /\ data_before = [cur |-> NewFrame, offers |-> 0]

\* the value a response to the PID can carry
ResponseValues(pid) == IF pid = "CoolantTemp" THEN CoolantValues ELSE {1}

\* the field update_from_response stores for the PID
FieldOf(pid, value) ==
    CASE pid \in {"Maf", "ShortFuelTrim", "LongFuelTrim"} -> value * 100
      [] pid = "O2Voltage" -> value * 1000
      [] OTHER -> value

\* the Err arm starting the frame afresh
FrameAfterErrReset(frame) == NewFrame

\* the Err arm: current_frame is not written
FrameAfterErr(frame) == frame

DataUnchanged ==
    <<ringVars, alertVars, fusionVars, batchVars, concVars, bghostVars,
      fghostVars, medianVars, repoVars, insVars, rwinVars, sboostVars,
      srateVars, sevVars, checksumVars, lateNoData>>

\* an iteration whose query answers Ok(response)
DataQueryOk ==
    /\ running
    /\ offers < MaxResponses
    /\ \E scheduled \in PopCandidates :
          /\ CanAnswerOk(scheduled)
          /\ \E value \in ResponseValues(scheduled.pid) :
                /\ IterationOk(scheduled, value)
                /\ cur' = [fields |-> [cur.fields EXCEPT ![scheduled.pid] =
                                          FieldOf(scheduled.pid, value)],
                           timestamp_ms |-> offers + 1]
                /\ decoded' = [decoded EXCEPT ![scheduled.pid] =
                                  FieldOf(scheduled.pid, value)]
    /\ offers' = offers + 1
    /\ data_before' = [cur |-> cur, offers |-> offers]
    /\ fail_streak' = StreakAfter(last_iter')
    /\ UNCHANGED DataUnchanged

\* an iteration whose query answers Err
DataQueryErr ==
    /\ RunIterationErr
    /\ cur' = FrameAfterErr(cur)
    /\ data_before' = [cur |-> cur, offers |-> offers]
    /\ fail_streak' = StreakAfter(last_iter')
    /\ UNCHANGED <<decoded, offers, DataUnchanged>>

DataRunStart == RunStart /\ UNCHANGED <<dataVars, DataUnchanged, sghostVars>>

DataNext == DataRunStart \/ DataQueryOk \/ DataQueryErr

\* run() and stop() as calls.  Both take &mut self, and the future of run()
\* keeps that borrow for as long as it lives: stop() can be called before
\* run(), after it returned, or after its future was dropped.
MaxDrops == 1    \* futures of run() dropped in one behaviour

NotStopped == [called |-> FALSE, queries |-> 0]

LifeInit ==
    /\ life_run = "idle"
    /\ life_stop = NotStopped
    /\ life_drops = 0

LifeUnchanged == <<ringVars, alertVars, fusionVars, batchVars, extOld, lateNoLife>>

\* self.running = true; let mut current_frame = SensorFrame::new(0);
LifeRunStart ==
    /\ life_run # "running"
    /\ life_run' = "running"
    /\ running' = TRUE
    /\ current_frame' = {}
    /\ UNCHANGED <<queue, sched_config, last_coolant_temp, frame_chan, client,
                   overflow_checks, panicked, last_iter, life_stop, life_drops>>
    /\ UNCHANGED LifeUnchanged

\* stop()
LifeStop ==
    /\ life_run # "running"
    /\ running' = FALSE
    /\ life_stop' = [called |-> TRUE, queries |-> 0]
    /\ UNCHANGED <<queue, sched_config, last_coolant_temp, current_frame,
                   frame_chan, client, overflow_checks, panicked, last_iter,
                   life_run, life_drops>>
    /\ UNCHANGED LifeUnchanged

\* one iteration of run() whose query succeeds, the coolant below the
\* boost threshold.  `while self.running` is tested first; nothing can have
\* cleared the flag while the future holds the scheduler.
LifeQueryOk ==
    /\ life_run = "running"
    /\ running
    /\ \E scheduled \in PopCandidates, value \in {v \in CoolantValues : ~Boosts(v)} :
          IterationOk(scheduled, value)
    /\ life_stop' = IF life_stop.called
                    THEN [life_stop EXCEPT !.queries = Min(@ + 1, 2)]
                    ELSE life_stop
    /\ UNCHANGED <<life_run, life_drops>>
    /\ UNCHANGED LifeUnchanged

\* the future of run() is dropped while it is suspended in
\* tokio::time::sleep: the entry it popped is a local of the future and
\* goes with it
LifeDrop ==
    /\ life_run = "running"
    /\ running
    /\ life_drops < MaxDrops
    /\ \E scheduled \in PopCandidates :
          /\ scheduled.next_query > 0
          /\ queue' = queue \ {scheduled}
    /\ life_run' = "dropped"
    /\ life_drops' = life_drops + 1
    /\ UNCHANGED <<sched_config, running, last_coolant_temp, current_frame,
                   frame_chan, client, overflow_checks, panicked, last_iter,
                   life_stop>>
    /\ UNCHANGED LifeUnchanged

LifeNext == LifeRunStart \/ LifeStop \/ LifeQueryOk \/ LifeDrop

\* boost_priority(pid, new_rate_hz).  It takes &mut self, as run() does
\* for as long as it runs, so it is called before run().
BoostTargets == {"CoolantTemp", "Maf"}
BoostRates   == {50}

NoBoost == [called |-> FALSE, pid |-> "", new_rate_hz |-> 0, before |-> {},
            after |-> {}]

BoostInit == last_boost = NoBoost

\* a boost that reprograms every entry it drains
BoostedItemAll(item, pid, new_rate_hz) == [item EXCEPT !.rate_hz = new_rate_hz]

\* if item.pid == pid { item.rate_hz = new_rate_hz; }
BoostedItem(item, pid, new_rate_hz) ==
    IF item.pid = pid THEN [item EXCEPT !.rate_hz = new_rate_hz] ELSE item

BoostPriority(pid, new_rate_hz) ==
    /\ ~running
    /\ queue' = {BoostedItem(item, pid, new_rate_hz) : item \in queue}
    /\ last_boost' = [called |-> TRUE, pid |-> pid, new_rate_hz |-> new_rate_hz,
                      before |-> queue, after |-> queue']
    /\ UNCHANGED <<sched_config, running, last_coolant_temp, current_frame,
                   frame_chan, client, overflow_checks, panicked, last_iter>>

SchedBoostPriority ==
    /\ \E pid \in BoostTargets, new_rate_hz \in BoostRates :
          BoostPriority(pid, new_rate_hz)
    /\ UNCHANGED <<ringVars, alertVars, fusionVars, batchVars, extNoBoost>>

SchedBoostNext ==
    SchedRunStart \/ SchedBoostPriority \/ SchedQueryOk \/ SchedFrameRecv

\* run() against the wall clock, with a mock client whose coolant stays at
\* or below the boost threshold.  tokio's timer has a resolution of 1 ms and
\* sleep() returns at the first timer tick at or after the deadline.
MaxLate    == 1        \* ms a sleep may return late
MaxElapsed == 165000   \* ms of run() explored

RateInit ==
    /\ late \in 0..MaxLate
    /\ elapsed = 0
    /\ queries = [pid \in Pids |-> 0]

RateIdle ==
    /\ late = 0
    /\ elapsed = 0
    /\ queries = [pid \in Pids |-> 0]

\* Instant::now() when the query is made: at once if the entry is due,
\* else when sleep(next_query - now) has returned
WakeAt(scheduled) ==
    IF scheduled.next_query > 0 THEN scheduled.next_query + late ELSE 0

RateIteration ==
    /\ running
    /\ elapsed < MaxElapsed
    /\ \E scheduled \in PopCandidates :
          /\ \E value \in (IF scheduled.pid = "CoolantTemp"
                            THEN {v \in CoolantValues : ~Boosts(v)}
                            ELSE {0}) :
                IterationOkAt(scheduled, value, WakeAt(scheduled))
          /\ elapsed' = elapsed + WakeAt(scheduled)
          /\ queries' = [queries EXCEPT ![scheduled.pid] = @ + 1]
    /\ UNCHANGED <<late, ringVars, alertVars, fusionVars, batchVars, extNoRate>>

\* the receiver of the frame channel is not scheduled here: once the
\* channel is full every try_send is dropped
SchedRateNext == SchedRunStart \/ RateIteration

SchedNext == SchedRunStart \/ SchedQueryOk \/ SchedQueryErr \/ SchedFrameRecv

(***************************************************************************)
(* Ring buffer, one thread in push and one in read_last.  One step per     *)
(* access to the shared memory.  ptr::write of a slot and the clone of a   *)
(* slot are not atomic: each is a begin step and an end step, and a clone  *)
(* that overlaps a write of the same slot is a data race, whose result is  *)
(* any of the frames involved or a torn frame.                             *)
(***************************************************************************)
Torn == 0 - 1

NoRead == [called |-> FALSE, frames |-> <<>>, base |-> 0]

ConcInit ==
    /\ wpc = "idle"
    /\ w_head = 0
    /\ rpc = "idle"
    /\ r_count = 0
    /\ r_len_head = 0
    /\ r_len = 0
    /\ r_head = 0
    /\ r_i = 0
    /\ r_frames = <<>>
    /\ r_snap = DefaultFrame
    /\ r_raced = FALSE
    /\ r_base = 0
    /\ cread = NoRead

\* len() on the head and the tail it loaded
LenOf(h, t) == IF h >= t THEN h - t ELSE capacity - t + h

\* read_last: the index of the i-th newest frame under the head it loaded
ReadIdxAt(h, i) == IF h >= i + 1 THEN h - i - 1 ELSE capacity - (i + 1 - h)

\* frames whose push has stored the new head
Published ==
    Len(pushed) - (IF wpc \in {"write", "store_head"} THEN 1 ELSE 0)

readerLocals == <<rpc, r_count, r_len_head, r_len, r_head, r_i, r_frames,
                  r_snap, r_base, cread>>

\* push: head.load, and ptr::write begins
WriteBegin ==
    /\ wpc = "idle"
    /\ Len(pushed) < MaxPushes
    /\ w_head' = head
    /\ pushed' = Append(pushed, Len(pushed) + 1)
    /\ wpc' = "write"
    /\ r_raced' = (r_raced \/ (rpc = "clone" /\ ReadIdxAt(r_head, r_i) = head))
    /\ UNCHANGED <<capacity, storage, head, tail, total_written, rl,
                   readerLocals>>

\* push: ptr::write is done
WriteEnd ==
    /\ wpc = "write"
    /\ storage' = [storage EXCEPT ![w_head] = pushed[Len(pushed)]]
    /\ wpc' = "store_head"
    /\ UNCHANGED <<capacity, head, tail, total_written, pushed, rl, w_head,
                   r_raced, readerLocals>>

\* push: head.store(next_head)
StoreHead ==
    /\ wpc = "store_head"
    /\ head' = (w_head + 1) % capacity
    /\ wpc' = "add_total"
    /\ UNCHANGED <<capacity, storage, tail, total_written, pushed, rl, w_head,
                   r_raced, readerLocals>>

\* push: total_written.fetch_add(1)
AddTotal ==
    /\ wpc = "add_total"
    /\ total_written' = total_written + 1
    /\ wpc' = "tail"
    /\ UNCHANGED <<capacity, storage, head, tail, pushed, rl, w_head,
                   r_raced, readerLocals>>

\* push: tail.load, and tail.store when next_head == tail (push is the only
\* writer of tail here)
AdvanceTail ==
    /\ wpc = "tail"
    /\ tail' = IF (w_head + 1) % capacity = tail THEN (tail + 1) % capacity
               ELSE tail
    /\ wpc' = "idle"
    /\ UNCHANGED <<capacity, storage, head, total_written, pushed, rl, w_head,
                   r_raced, readerLocals>>

writerShared == <<capacity, storage, head, tail, total_written, pushed, rl,
                  wpc, w_head>>

\* read_last(count) calls len(): head.load
LenLoadHead(count) ==
    /\ rpc = "idle"
    /\ r_count' = count
    /\ r_len_head' = head
    /\ r_base' = Published
    /\ cread' = NoRead
    /\ rpc' = "len_tail"
    /\ UNCHANGED <<writerShared, r_len, r_head, r_i, r_frames, r_snap, r_raced>>

\* len(): tail.load, and the length it returns
LenLoadTail ==
    /\ rpc = "len_tail"
    /\ r_len' = LenOf(r_len_head, tail)
    /\ rpc' = "load_head"
    /\ UNCHANGED <<writerShared, r_count, r_len_head, r_head, r_i, r_frames,
                   r_snap, r_raced, r_base, cread>>

\* read_last: head.load
ReadLoadHead ==
    /\ rpc = "load_head"
    /\ r_head' = head
    /\ r_i' = 0
    /\ r_frames' = <<>>
    /\ rpc' = "loop"
    /\ UNCHANGED <<writerShared, r_count, r_len_head, r_len, r_snap, r_raced,
                   r_base, cread>>

\* read_last: storage[idx].clone() begins
CloneBegin ==
    /\ rpc = "loop"
    /\ r_i < Min(r_count, r_len)
    /\ r_snap' = storage[ReadIdxAt(r_head, r_i)]
    /\ r_raced' = (wpc = "write" /\ w_head = ReadIdxAt(r_head, r_i))
    /\ rpc' = "clone"
    /\ UNCHANGED <<writerShared, r_count, r_len_head, r_len, r_head, r_i,
                   r_frames, r_base, cread>>

\* what a clone can yield: the slot, or after a race the slot as it was,
\* as it is, or a mix of the two
CloneOutcomes ==
    IF r_raced
    THEN {r_snap, storage[ReadIdxAt(r_head, r_i)], Torn}
    ELSE {storage[ReadIdxAt(r_head, r_i)]}

\* read_last: the clone is done and pushed onto frames
CloneEnd ==
    /\ rpc = "clone"
    /\ \E f \in CloneOutcomes : r_frames' = Append(r_frames, f)
    /\ r_i' = r_i + 1
    /\ r_raced' = FALSE
    /\ rpc' = "loop"
    /\ UNCHANGED <<writerShared, r_count, r_len_head, r_len, r_head, r_snap,
                   r_base, cread>>

\* read_last returns frames
ReadReturn ==
    /\ rpc = "loop"
    /\ r_i >= Min(r_count, r_len)
    /\ cread' = [called |-> TRUE, frames |-> r_frames, base |-> r_base]
    /\ rpc' = "idle"
    /\ UNCHANGED <<writerShared, r_count, r_len_head, r_len, r_head, r_i,
                   r_frames, r_snap, r_raced, r_base>>

ConcWriteBegin   == WriteBegin /\ UNCHANGED <<alertVars, fusionVars, batchVars, schedVars, extNoConc>>
ConcWriteEnd     == WriteEnd /\ UNCHANGED <<alertVars, fusionVars, batchVars, schedVars, extNoConc>>
ConcStoreHead    == StoreHead /\ UNCHANGED <<alertVars, fusionVars, batchVars, schedVars, extNoConc>>
ConcAddTotal     == AddTotal /\ UNCHANGED <<alertVars, fusionVars, batchVars, schedVars, extNoConc>>
ConcAdvanceTail  == AdvanceTail /\ UNCHANGED <<alertVars, fusionVars, batchVars, schedVars, extNoConc>>
ConcLenLoadHead  == (\E count \in 1..MaxRead : LenLoadHead(count)) /\ UNCHANGED <<alertVars, fusionVars, batchVars, schedVars, extNoConc>>
ConcLenLoadTail  == LenLoadTail /\ UNCHANGED <<alertVars, fusionVars, batchVars, schedVars, extNoConc>>
ConcReadLoadHead == ReadLoadHead /\ UNCHANGED <<alertVars, fusionVars, batchVars, schedVars, extNoConc>>
ConcCloneBegin   == CloneBegin /\ UNCHANGED <<alertVars, fusionVars, batchVars, schedVars, extNoConc>>
ConcCloneEnd     == CloneEnd /\ UNCHANGED <<alertVars, fusionVars, batchVars, schedVars, extNoConc>>
ConcReadReturn   == ReadReturn /\ UNCHANGED <<alertVars, fusionVars, batchVars, schedVars, extNoConc>>
ConcNext ==
    ConcWriteBegin \/ ConcWriteEnd \/ ConcStoreHead \/ ConcAddTotal
        \/ ConcAdvanceTail \/ ConcLenLoadHead \/ ConcLenLoadTail
        \/ ConcReadLoadHead \/ ConcCloneBegin \/ ConcCloneEnd \/ ConcReadReturn

(***************************************************************************)
(* Median filter.  Samples are integers; the window of new() and reset()   *)
(* holds zeros.                                                            *)
(***************************************************************************)
MaxWindow == 3      \* odd window sizes up to MaxWindow are explored
MaxInputs == 5      \* filter calls between two resets
SampleValues == {10, 11, 100}

WindowSizes == {n \in 1..MaxWindow : n % 2 = 1}

NoOutput == [called |-> FALSE, input |-> 0, value |-> 0]

MedianInit ==
    /\ mf_size \in WindowSizes
    /\ mf_window = [i \in 0..(mf_size - 1) |-> 0]
    /\ mf_position = 0
    /\ mf_filled = FALSE
    /\ mf_inputs = <<>>
    /\ mf_out = NoOutput

\* how many entries of the window are below x, and equal to x
Below(w, x) == Cardinality({i \in DOMAIN w : w[i] < x})
Equal(w, x) == Cardinality({i \in DOMAIN w : w[i] = x})

\* sorted[k] of the sorted copy of w (k from 0): the value with at most k
\* entries below it and more than k entries below or equal to it
SortedAt(w, k) ==
    CHOOSE x \in {w[i] : i \in DOMAIN w} :
        Below(w, x) <= k /\ k < Below(w, x) + Equal(w, x)

\* the smallest entry of the window in the place of the middle one
WindowMedianLowest(w) == SortedAt(w, 0)

\* sorted[self.size / 2]
WindowMedian(w) == SortedAt(w, mf_size \div 2)

Filter(value) ==
    LET window   == [mf_window EXCEPT ![mf_position] = value]
        position == (mf_position + 1) % mf_size
        filled   == mf_filled \/ position = 0
    IN  /\ Len(mf_inputs) < MaxInputs
        /\ mf_window' = window
        /\ mf_position' = position
        /\ mf_filled' = filled
        /\ mf_inputs' = Append(mf_inputs, value)
        /\ mf_out' = [called |-> TRUE, input |-> value,
                      value |-> IF filled THEN WindowMedian(window) ELSE value]
        /\ UNCHANGED mf_size

MedianReset ==
    /\ mf_window' = [i \in 0..(mf_size - 1) |-> 0]
    /\ mf_position' = 0
    /\ mf_filled' = FALSE
    /\ mf_inputs' = <<>>
    /\ mf_out' = NoOutput
    /\ UNCHANGED mf_size

MedianFilterCall == (\E v \in SampleValues : Filter(v)) /\ UNCHANGED <<coreVars, extNoMedian>>
MedianResetCall  == MedianReset /\ UNCHANGED <<coreVars, extNoMedian>>
MedianNext == MedianFilterCall \/ MedianResetCall

(***************************************************************************)
(* Repository (in-memory).  A sensor record is its timestamp_ms; a         *)
(* prediction record is its id and timestamp_ms.  new() fixes the two      *)
(* retention limits at 100 000 and 10 000; they are scaled down here.      *)
(***************************************************************************)
MaxSensorRecords == 2        \* stands for max_sensor_records of new()
MaxPredictionRecords == 3    \* stands for max_prediction_records of new()
MaxInserts == 5              \* inserts into one collection between clears
MaxPredictionId == 7         \* ids handed out over the whole run
Timestamps == {1, 2}

RepoInit ==
    /\ sensor_log = <<>>
    /\ predictions = <<>>
    /\ max_sensor_records = MaxSensorRecords
    /\ max_prediction_records = MaxPredictionRecords
    /\ next_prediction_id = 1
    /\ sensors_inserted = <<>>
    /\ predictions_inserted = <<>>

\* retention that drops a prediction only once the limit is exceeded
RemoveFirstIfOver(preds, max) ==
    IF Len(preds) > max THEN Tail(preds) ELSE preds

\* while log.len() >= max { log.pop_front(); }
RECURSIVE PopFrontWhileFull(_, _)
PopFrontWhileFull(log, max) ==
    IF Len(log) >= max
    THEN PopFrontWhileFull(Tail(log), max)
    ELSE log

\* if predictions.len() >= max { predictions.remove(0); }
RemoveFirstIfFull(preds, max) ==
    IF Len(preds) >= max THEN Tail(preds) ELSE preds

insert_sensor(record) ==
    /\ Len(sensors_inserted) < MaxInserts
    /\ sensor_log' = Append(PopFrontWhileFull(sensor_log, max_sensor_records),
                            record)
    /\ sensors_inserted' = Append(sensors_inserted, record)
    /\ UNCHANGED <<predictions, max_sensor_records, max_prediction_records,
                   next_prediction_id, predictions_inserted>>

insert_prediction(ts) ==
    LET record == [id |-> next_prediction_id, timestamp_ms |-> ts]
    IN  /\ Len(predictions_inserted) < MaxInserts
        /\ next_prediction_id < MaxPredictionId
        /\ next_prediction_id' = next_prediction_id + 1
        /\ predictions' =
               Append(RemoveFirstIfFull(predictions, max_prediction_records),
                      record)
        /\ predictions_inserted' = Append(predictions_inserted, record)
        /\ UNCHANGED <<sensor_log, max_sensor_records, max_prediction_records,
                       sensors_inserted>>

clear ==
    /\ sensor_log' = <<>>
    /\ predictions' = <<>>
    /\ sensors_inserted' = <<>>
    /\ predictions_inserted' = <<>>
    /\ UNCHANGED <<max_sensor_records, max_prediction_records,
                   next_prediction_id>>

sensor_count == Len(sensor_log)
prediction_count == Len(predictions)

RepoInsertSensor     == (\E ts \in Timestamps : insert_sensor(ts)) /\ UNCHANGED <<coreVars, extNoRepo>>
RepoInsertPrediction == (\E ts \in Timestamps : insert_prediction(ts)) /\ UNCHANGED <<coreVars, extNoRepo>>
RepoClear            == clear /\ UNCHANGED <<coreVars, extNoRepo>>
RepoNext == RepoInsertSensor \/ RepoInsertPrediction \/ RepoClear

(***************************************************************************)
(* insert_prediction and clear called from several threads.  Each Mutex    *)
(* is held from its lock() to the return of the call.                      *)
(***************************************************************************)
Threads == {1, 2}
NoThread == 0

InsInit ==
    /\ ins_pc = [t \in Threads |-> "idle"]
    /\ ins_record = [t \in Threads |-> [id |-> 0, timestamp_ms |-> 0]]
    /\ predictions_lock = NoThread
    /\ id_lock = NoThread
    /\ returned_ids = <<>>

\* a Mutex that never blocks
LockAlwaysFree(holder) == TRUE

\* Mutex::lock() returns once no thread holds the guard
LockFree(holder) == holder = NoThread

insUnchanged == <<coreVars, concVars, bghostVars, fghostVars, medianVars,
                  sghostVars, rwinVars, sboostVars, srateVars, sevVars,
                  checksumVars, lateVars>>

\* let mut predictions = self.predictions.lock()
InsLockPredictions(t, ts) ==
    /\ ins_pc[t] = "idle"
    /\ next_prediction_id < MaxPredictionId
    /\ LockFree(predictions_lock)
    /\ predictions_lock' = t
    /\ ins_record' = [ins_record EXCEPT ![t] = [id |-> 0, timestamp_ms |-> ts]]
    /\ ins_pc' = [ins_pc EXCEPT ![t] = "locked_predictions"]
    /\ UNCHANGED <<id_lock, returned_ids, repoVars, insUnchanged>>

\* let mut id = self.next_prediction_id.lock()
InsLockId(t) ==
    /\ ins_pc[t] = "locked_predictions"
    /\ LockFree(id_lock)
    /\ id_lock' = t
    /\ ins_pc' = [ins_pc EXCEPT ![t] = "locked_id"]
    /\ UNCHANGED <<ins_record, predictions_lock, returned_ids, repoVars,
                   insUnchanged>>

\* record.id = *id; *id += 1;
InsAssignId(t) ==
    /\ ins_pc[t] = "locked_id"
    /\ ins_record' = [ins_record EXCEPT ![t].id = next_prediction_id]
    /\ next_prediction_id' = next_prediction_id + 1
    /\ ins_pc' = [ins_pc EXCEPT ![t] = "assigned"]
    /\ UNCHANGED <<predictions_lock, id_lock, returned_ids, sensor_log,
                   predictions, max_sensor_records, max_prediction_records,
                   sensors_inserted, predictions_inserted, insUnchanged>>

\* if predictions.len() >= max { predictions.remove(0); } predictions.push(record)
InsPush(t) ==
    /\ ins_pc[t] = "assigned"
    /\ predictions' =
           Append(RemoveFirstIfFull(predictions, max_prediction_records),
                  ins_record[t])
    /\ predictions_inserted' = Append(predictions_inserted, ins_record[t])
    /\ ins_pc' = [ins_pc EXCEPT ![t] = "pushed"]
    /\ UNCHANGED <<ins_record, predictions_lock, id_lock, returned_ids,
                   sensor_log, max_sensor_records, max_prediction_records,
                   next_prediction_id, sensors_inserted, insUnchanged>>

\* Ok(returned_id): both guards are dropped
InsReturn(t) ==
    /\ ins_pc[t] = "pushed"
    /\ returned_ids' = Append(returned_ids, ins_record[t].id)
    /\ predictions_lock' =
           IF predictions_lock = t THEN NoThread ELSE predictions_lock
    /\ id_lock' = IF id_lock = t THEN NoThread ELSE id_lock
    /\ ins_pc' = [ins_pc EXCEPT ![t] = "idle"]
    /\ UNCHANGED <<ins_record, repoVars, insUnchanged>>

\* clear() on another thread: it takes the predictions Mutex for preds.clear()
InsClear ==
    /\ LockFree(predictions_lock)
    /\ clear
    /\ UNCHANGED <<insVars, insUnchanged>>

InsCallLock   == \E t \in Threads, ts \in Timestamps : InsLockPredictions(t, ts)
InsCallLockId == \E t \in Threads : InsLockId(t)
InsCallAssign == \E t \in Threads : InsAssignId(t)
InsCallPush   == \E t \in Threads : InsPush(t)
InsCallReturn == \E t \in Threads : InsReturn(t)
InsNext ==
    \/ InsCallLock \/ InsCallLockId \/ InsCallAssign \/ InsCallPush
    \/ InsCallReturn \/ InsClear

(***************************************************************************)
(* The Repository's locking: each operation as the Mutex guards it takes   *)
(* and drops, in order.  Guards are dropped in reverse order of their      *)
(* declaration when the operation returns.                                 *)
(***************************************************************************)
Mutexes == {"sensor_log", "predictions", "next_prediction_id"}

RepoOps == {"insert_sensor", "insert_prediction", "get_sensors",
            "get_sensors_since", "get_predictions", "sensor_count",
            "prediction_count", "clear"}

Lock(mutex) == [do |-> "lock", mutex |-> mutex]
Unlock(mutex) == [do |-> "unlock", mutex |-> mutex]

\* insert_prediction taking the id before the predictions
InsertPredictionIdFirst ==
    <<Lock("next_prediction_id"), Lock("predictions"),
      Unlock("predictions"), Unlock("next_prediction_id")>>

InsertPredictionSteps ==
    <<Lock("predictions"), Lock("next_prediction_id"),
      Unlock("next_prediction_id"), Unlock("predictions")>>

LockSteps(op) ==
    CASE op \in {"insert_sensor", "get_sensors", "get_sensors_since",
                 "sensor_count"} ->
            <<Lock("sensor_log"), Unlock("sensor_log")>>
      [] op \in {"get_predictions", "prediction_count"} ->
            <<Lock("predictions"), Unlock("predictions")>>
      [] op = "insert_prediction" -> InsertPredictionSteps
      [] op = "clear" ->
            <<Lock("sensor_log"), Unlock("sensor_log"),
              Lock("predictions"), Unlock("predictions")>>

LockInit ==
    /\ lk_op = [t \in Threads |-> "none"]
    /\ lk_step = [t \in Threads |-> 1]
    /\ lk_holder = [mutex \in Mutexes |-> NoThread]

\* a thread calls an operation
LkBegin(t, op) ==
    /\ lk_op[t] = "none"
    /\ lk_op' = [lk_op EXCEPT ![t] = op]
    /\ lk_step' = [lk_step EXCEPT ![t] = 1]
    /\ UNCHANGED lk_holder

\* the thread takes its next step; the operation returns with the last
LkStep(t) ==
    /\ lk_op[t] # "none"
    /\ LET steps == LockSteps(lk_op[t])
           step == steps[lk_step[t]]
       IN  /\ IF step.do = "lock"
              THEN /\ LockFree(lk_holder[step.mutex])
                   /\ lk_holder' = [lk_holder EXCEPT ![step.mutex] = t]
              ELSE lk_holder' = [lk_holder EXCEPT ![step.mutex] = NoThread]
           /\ IF lk_step[t] = Len(steps)
              THEN /\ lk_op' = [lk_op EXCEPT ![t] = "none"]
                   /\ lk_step' = [lk_step EXCEPT ![t] = 1]
              ELSE /\ lk_step' = [lk_step EXCEPT ![t] = @ + 1]
                   /\ UNCHANGED lk_op

LkUnchanged == <<coreVars, extOld, lateNoLock>>

LocksBegin ==
    (\E t \in Threads, op \in RepoOps : LkBegin(t, op)) /\ UNCHANGED LkUnchanged
LocksStep(t) == LkStep(t) /\ UNCHANGED LkUnchanged
LocksStepAny == \E t \in Threads : LocksStep(t)

LocksNext == LocksBegin \/ LocksStepAny

\* a thread that can run again and again is run, and a Mutex that is free
\* again and again is handed to a thread that waits for it
LocksFair == \A t \in Threads : SF_vars(LocksStep(t))

(***************************************************************************)
(* The background polling thread of ImuService and AsyncCanDriver.  The    *)
(* channel holds 100 resp. 1000 items in the code; PollChanCap here.       *)
(***************************************************************************)
PollChanCap == 2
PollItems == {1, 2}
PollKinds == {"imu", "can"}

\* what driver.read() / driver.read_sensor_frame() can return
ReadResults(kind) ==
    IF kind = "imu" THEN {"data", "err"} ELSE {"data", "none", "err"}

PollInit ==
    /\ poll_kind \in PollKinds
    /\ poll_pc = "init"
    /\ poll_shutdown = FALSE
    /\ poll_rx_open = TRUE
    /\ poll_chan = <<>>
    /\ poll_item = 0

PollIdle == PollInit /\ poll_kind = "imu"

\* ImuDriver::new / CanDriver::new: Err returns from the closure
PollDriverNew ==
    /\ poll_pc = "init"
    /\ \E ok \in BOOLEAN : poll_pc' = IF ok THEN "check" ELSE "done"
    /\ UNCHANGED <<poll_kind, poll_shutdown, poll_rx_open, poll_chan,
                   poll_item>>

\* while !shutdown_clone.load(SeqCst)
PollCheck ==
    /\ poll_pc = "check"
    /\ poll_pc' = IF poll_shutdown THEN "done" ELSE "read"
    /\ UNCHANGED <<poll_kind, poll_shutdown, poll_rx_open, poll_chan,
                   poll_item>>

\* match driver.read(): data goes to the send, anything else to a sleep
PollRead ==
    /\ poll_pc = "read"
    /\ \E r \in ReadResults(poll_kind) :
          IF r = "data"
          THEN /\ poll_item' \in PollItems
               /\ poll_pc' = "send"
          ELSE /\ poll_pc' = "sleep"
               /\ UNCHANGED poll_item
    /\ UNCHANGED <<poll_kind, poll_shutdown, poll_rx_open, poll_chan>>

\* tx.blocking_send(..): an error once the Receiver is gone, else it waits
\* for room
SendSucceeds(open) == open

\* if tx.blocking_send(data).is_err() { break; }
PollSend ==
    /\ poll_pc = "send"
    /\ IF SendSucceeds(poll_rx_open)
       THEN /\ Len(poll_chan) < PollChanCap
            /\ poll_chan' = Append(poll_chan, poll_item)
            /\ poll_pc' = IF poll_kind = "imu" THEN "sleep" ELSE "check"
       ELSE /\ poll_pc' = "done"
            /\ UNCHANGED poll_chan
    /\ UNCHANGED <<poll_kind, poll_shutdown, poll_rx_open, poll_item>>

\* std::thread::sleep(..) returns
PollSleep ==
    /\ poll_pc = "sleep"
    /\ poll_pc' = "check"
    /\ UNCHANGED <<poll_kind, poll_shutdown, poll_rx_open, poll_chan,
                   poll_item>>

\* next() / next_frame(): self.receiver.recv().await takes the oldest item
PollRecv ==
    /\ poll_rx_open
    /\ poll_chan # <<>>
    /\ poll_chan' = Tail(poll_chan)
    /\ UNCHANGED <<poll_kind, poll_pc, poll_shutdown, poll_rx_open, poll_item>>

\* the service is dropped: the Receiver closes the channel and what it
\* holds is discarded; the flag is dropped with it, never stored to
PollDropService ==
    /\ poll_rx_open
    /\ poll_rx_open' = FALSE
    /\ poll_chan' = <<>>
    /\ UNCHANGED <<poll_kind, poll_pc, poll_shutdown, poll_item>>

PollUnchanged == <<coreVars, extOld, lateNoPoll>>

PollerDriverNew == PollDriverNew /\ UNCHANGED PollUnchanged
PollerCheck == PollCheck /\ UNCHANGED PollUnchanged
PollerRead == PollRead /\ UNCHANGED PollUnchanged
PollerSend == PollSend /\ UNCHANGED PollUnchanged
PollerSleep == PollSleep /\ UNCHANGED PollUnchanged
PollerRecv == PollRecv /\ UNCHANGED PollUnchanged
PollerDropService == PollDropService /\ UNCHANGED PollUnchanged

PollerNext ==
    \/ PollerDriverNew \/ PollerCheck \/ PollerRead \/ PollerSend
    \/ PollerSleep \/ PollerRecv \/ PollerDropService

\* the operating system runs the thread whenever it can take a step
PollerFair ==
    /\ WF_vars(PollerDriverNew)
    /\ WF_vars(PollerCheck)
    /\ WF_vars(PollerRead)
    /\ WF_vars(PollerSend)
    /\ WF_vars(PollerSleep)

(***************************************************************************)
(* Normalizer.  Values are integers and alpha is 0 or 1 (the ends of its   *)
(* clamp), so that the mean and the variance stay integers; a result is    *)
(* the fraction num / den, and the floor 0.0001 of a divisor is den = 0    *)
(* under a numerator that is then 0.                                       *)
(***************************************************************************)
NormValues == {0, 5, 10, 20}
NormAlphas == {0, 1}
NormMethods == {"ZScore", "MinMax", "None"}
F64Max == 1000       \* f64::MAX: above every value
F64Min == 0 - 1000   \* f64::MIN: below every value

NoNormalize == [called |-> FALSE, value |-> 0, result |-> [num |-> 0, den |-> 1]]

\* Normalizer::new(method, alpha)
NormNew(method, alpha) ==
    [mean |-> 0, variance |-> 1, alpha |-> alpha, initialized |-> FALSE,
     method |-> method, min |-> F64Max, max |-> F64Min]

NormInit ==
    /\ \E method \in NormMethods, alpha \in NormAlphas :
          normalizer = NormNew(method, alpha)
    /\ norm_call = NoNormalize

NormIdle ==
    /\ normalizer = NormNew("None", 0)
    /\ norm_call = NoNormalize

\* the result of the match on self.method, the statistics updated
MethodResult(n, value) ==
    CASE n.method = "ZScore" ->
            \* variance is 0 or 1 here: its square root is itself
            [num |-> value - n.mean, den |-> n.variance]
      [] n.method = "MinMax" ->
            [num |-> value - n.min, den |-> n.max - n.min]
      [] n.method = "None" -> [num |-> value, den |-> 1]

Normalize(value) ==
    LET seen == [normalizer EXCEPT !.min = Min(@, value),
                                   !.max = Max(@, value)]
    IN  IF ~normalizer.initialized
        THEN /\ normalizer' = [seen EXCEPT !.mean = value, !.variance = 1,
                                           !.initialized = TRUE]
             /\ norm_call' = [called |-> TRUE, value |-> value,
                              result |-> [num |-> 0, den |-> 1]]
        ELSE LET delta == value - seen.mean
                 mean == seen.mean + seen.alpha * delta
                 variance ==
                     (1 - seen.alpha) * (seen.variance + seen.alpha * delta * delta)
                 updated == [seen EXCEPT !.mean = mean, !.variance = variance]
             IN  /\ normalizer' = updated
                 /\ norm_call' = [called |-> TRUE, value |-> value,
                                  result |-> MethodResult(updated, value)]

NormReset ==
    /\ normalizer' = [normalizer EXCEPT !.mean = 0, !.variance = 1,
                                        !.initialized = FALSE,
                                        !.min = F64Max, !.max = F64Min]
    /\ norm_call' = NoNormalize

NormUnchanged == <<coreVars, extOld, lateNoNorm>>

NormNormalizeCall ==
    (\E value \in NormValues : Normalize(value)) /\ UNCHANGED NormUnchanged
NormResetCall == NormReset /\ UNCHANGED NormUnchanged

NormNext == NormNormalizeCall \/ NormResetCall

(***************************************************************************)
(* CloudSync.  An event is its variant; the hour is what Utc::now() gives  *)
(* is_nightly_window.                                                      *)
(***************************************************************************)
MaxUsed == 3         \* used_today_mb stays within 0..MaxUsed
Quotas == {0, 2}
Schedules == {"Immediate", "Opportunistic", "Nightly", "Manual"}
EventKinds == {"Crash", "HardBraking", "DrowsyDeparture"}
Hours == {1, 2, 6, 7}

NoPublish == [called |-> FALSE, event |-> "", hour |-> 0, used |-> 0,
              result |-> ""]

\* CloudSync::new(config)
CloudInit ==
    /\ \E quota \in Quotas, schedule \in Schedules :
          cloud = [daily_quota_mb |-> quota, schedule |-> schedule,
                   client |-> FALSE, used_today_mb |-> 0]
    /\ cloud_call = NoPublish

CloudIdle ==
    /\ cloud = [daily_quota_mb |-> 2, schedule |-> "Opportunistic",
                client |-> FALSE, used_today_mb |-> 0]
    /\ cloud_call = NoPublish

IsNightlyWindow(hour) == hour >= 2 /\ hour <= 6

\* should_upload with the quota looked at before the kind of event
ShouldUploadQuotaFirst(event, hour) ==
    IF cloud.used_today_mb >= cloud.daily_quota_mb THEN FALSE
    ELSE IF event = "Crash" THEN TRUE
    ELSE CASE cloud.schedule = "Immediate" -> TRUE
           [] cloud.schedule = "Opportunistic" -> TRUE
           [] cloud.schedule = "Nightly" -> IsNightlyWindow(hour)
           [] cloud.schedule = "Manual" -> FALSE

ShouldUpload(event, hour) ==
    IF event = "Crash" THEN TRUE
    ELSE IF cloud.used_today_mb >= cloud.daily_quota_mb THEN FALSE
    ELSE CASE cloud.schedule = "Immediate" -> TRUE
           [] cloud.schedule = "Opportunistic" -> TRUE
           [] cloud.schedule = "Nightly" -> IsNightlyWindow(hour)
           [] cloud.schedule = "Manual" -> FALSE

\* publish_event(event, driver_id); `sent` is whether client.publish
\* returned Ok
PublishEvent(event, hour, sent) ==
    LET result == IF ~ShouldUpload(event, hour) THEN "BandwidthLimit"
                  ELSE IF ~cloud.client THEN "Connection"
                  ELSE IF ~sent THEN "Publish"
                  ELSE "Ok"
    IN  /\ result = "Ok" => cloud.used_today_mb < MaxUsed
        /\ cloud' = IF result = "Ok"
                    THEN [cloud EXCEPT !.used_today_mb = @ + 1]
                    ELSE cloud
        /\ cloud_call' = [called |-> TRUE, event |-> event, hour |-> hour,
                          used |-> cloud.used_today_mb, result |-> result]

\* connect()
Connect ==
    /\ cloud' = [cloud EXCEPT !.client = TRUE]
    /\ UNCHANGED cloud_call

\* reset_daily_quota()
ResetDailyQuota ==
    /\ cloud' = [cloud EXCEPT !.used_today_mb = 0]
    /\ cloud_call' = NoPublish

CloudUnchanged == <<coreVars, extOld, lateNoCloud>>

CloudPublishEvent ==
    /\ \E event \in EventKinds, hour \in Hours, sent \in BOOLEAN :
          PublishEvent(event, hour, sent)
    /\ UNCHANGED CloudUnchanged
CloudConnect == Connect /\ UNCHANGED CloudUnchanged
CloudResetDailyQuota == ResetDailyQuota /\ UNCHANGED CloudUnchanged

CloudNext == CloudPublishEvent \/ CloudConnect \/ CloudResetDailyQuota

(***************************************************************************)
(* Validator::validate_checksum.  Bytes are 0..255.                        *)
(***************************************************************************)
MaxPayload == 3      \* payloads of 0..MaxPayload bytes
Bytes == {0, 1, 127, 128, 255}

NotValidated == [called |-> FALSE, ok |-> FALSE, expected |-> 0, actual |-> 0]

Payloads == UNION {[1..n -> Bytes] : n \in 0..MaxPayload}

ChecksumInit ==
    /\ cs_data \in Payloads
    /\ cs_expected \in Bytes
    /\ cs_result = NotValidated

ChecksumIdle ==
    /\ cs_data = <<>>
    /\ cs_expected = 0
    /\ cs_result = NotValidated

\* an addition that stops at 255
SaturatingAdd(acc, x) == IF acc + x > U8Max THEN U8Max ELSE acc + x

\* u8::wrapping_add
WrappingAdd(acc, x) == (acc + x) % (U8Max + 1)

\* data.iter().fold(acc, |acc, &x| acc.wrapping_add(x))
RECURSIVE Fold(_, _)
Fold(acc, data) ==
    IF data = <<>> THEN acc
    ELSE Fold(WrappingAdd(acc, Head(data)), Tail(data))

ValidateChecksum(data, expected) ==
    LET calculated == Fold(0, data)
    IN  cs_result' = [called |-> TRUE, ok |-> (calculated = expected),
                      expected |-> expected, actual |-> calculated]

ChecksumValidate ==
    /\ ValidateChecksum(cs_data, cs_expected)
    /\ UNCHANGED <<cs_data, cs_expected, coreVars, extNoChecksum>>

\* the caller takes the next frame off the wire
ChecksumNextFrame ==
    /\ cs_result.called
    /\ cs_data' \in Payloads
    /\ cs_expected' \in Bytes
    /\ cs_result' = NotValidated
    /\ UNCHANGED <<coreVars, extNoChecksum>>

ChecksumNext == ChecksumValidate \/ ChecksumNextFrame

(***************************************************************************)
(* Claims: ring buffer                                                     *)
(***************************************************************************)
\* C1: after every push, len() is between 0 and capacity - 1 and
\* total_written() equals the number of pushes made so far.
C1_LenBoundAndTotalWritten ==
    /\ RingLen \in 0..(capacity - 1)
    /\ total_written = Len(pushed)

\* the buffer has wrapped: more pushes than slots, and it is full
C1_Witness ==
    /\ capacity >= 2
    /\ Len(pushed) > capacity
    /\ RingLen = capacity - 1
    /\ total_written = Len(pushed)

\* C2: read_last(m) returns exactly min(m, len()) frames, the most recently
\* pushed ones, newest first, also after the buffer has wrapped.
C2_ReadLastNewestFirst ==
    rl.called =>
        /\ Len(rl.frames) = Min(rl.count, rl.len)
        /\ \A k \in 1..Len(rl.frames) :
              rl.frames[k] = pushed[Len(pushed) - k + 1]

\* a read of several frames across the wrap-around of the storage
C2_Witness ==
    /\ rl.called
    /\ Len(pushed) > capacity
    /\ Len(rl.frames) >= 2
    /\ head < Len(rl.frames)
    /\ rl.count > rl.len

\* C11: with a push and a read_last running on two threads, every frame
\* read_last returns is a complete pushed frame, the frames are consecutive
\* pushes, newest first, and the newest of them is no older than the last
\* frame published when read_last was called.
C11_NoTornContiguousRead ==
    cread.called =>
        /\ \A k \in 1..Len(cread.frames) : cread.frames[k] \in 1..Len(pushed)
        /\ \A k \in 1..(Len(cread.frames) - 1) :
              cread.frames[k + 1] = cread.frames[k] - 1
        /\ Len(cread.frames) > 0 => cread.frames[1] >= cread.base

(***************************************************************************)
(* Claims: alert manager                                                   *)
(***************************************************************************)
\* C4: once should_fire(L, c) returned true at time t and record_fire(L)
\* followed, every should_fire(L, c') at a time t' with
\* t < t' < t + cooldown_seconds returns false (clear() not called since).
C4_CooldownSuppresses ==
    (/\ last_call.called
     /\ last_call.fired_at # NoTime
     /\ last_call.fired_at < last_call.time
     /\ last_call.time < last_call.fired_at + config.cooldown_seconds)
        => ~last_call.result

\* a call inside the cooldown that passed the other two gates, after the
\* other label fired in between
C4_Witness ==
    /\ last_call.called
    /\ last_call.fired_at # NoTime
    /\ last_call.fired_at < last_call.time
    /\ last_call.time < last_call.fired_at + config.cooldown_seconds
    /\ last_call.gate = "cooldown"
    /\ \E l \in Labels \ {last_call.label} :
          states[l].present /\ states[l].last_fired > last_call.fired_at

\* number of recorded fires in the 3600 s window that starts at time w
FiresInWindow(w) ==
    Cardinality({i \in 1..Len(fire_log) :
                   /\ fire_log[i][1] >= w
                   /\ fire_log[i][1] < w + HourSecs})

\* number of recorded fires in hourly period e (between two resets)
FiresInPeriod(e) ==
    Cardinality({i \in 1..Len(fire_log) : fire_log[i][2] = e})

C15_FiresIffAllGatesPass ==
    (last_call.called /\ ~cleared) =>
        (last_call.result <=>
            /\ last_call.confidence >= config.confidence_threshold
            /\ FiresInPeriod(epoch) < config.max_alerts_per_hour
            /\ \/ ~states[last_call.label].present
               \/ last_call.time - states[last_call.label].last_fired
                     >= config.cooldown_seconds)

\* the label fired before, its cooldown is just over, the hourly period
\* already holds a fire, and should_fire answered true
C15_Witness ==
    /\ last_call.called
    /\ ~cleared
    /\ last_call.result
    /\ states[last_call.label].present
    /\ last_call.time - states[last_call.label].last_fired = config.cooldown_seconds
    /\ FiresInPeriod(epoch) >= 1

\* the fault taken as of critical severity; should_fire is given the label
\* and the confidence only
CriticalFaults == {"overheating"}

\* C16: for a critical-severity fault should_fire returns false whenever
\* the confidence is below critical_threshold, also at or above
\* confidence_threshold.
C16_CriticalNeedsCriticalThreshold ==
    (/\ last_call.called
     /\ last_call.label \in CriticalFaults
     /\ last_call.confidence < config.critical_threshold)
        => ~last_call.result

\* C38: when every record_fire directly follows a should_fire of its
\* label that returned true, hourly_count never exceeds
\* max_alerts_per_hour; and while it equals max_alerts_per_hour should_fire
\* returns false for every label and confidence, until more than 3600 s
\* have passed since hour_start (the call then resets the count) or
\* clear() is called.
C38_HourlyCountCapped ==
    disciplined =>
        /\ hourly_count <= config.max_alerts_per_hour
        /\ (last_call.called /\ hourly_count = config.max_alerts_per_hour)
              => ~last_call.result

\* the count at the cap, and a should_fire for a label that never fired,
\* with enough confidence, refused by the throttle
C38_Witness ==
    /\ disciplined
    /\ hourly_count = config.max_alerts_per_hour
    /\ last_call.called
    /\ last_call.gate = "throttle"
    /\ last_call.confidence >= config.confidence_threshold
    /\ ~states[last_call.label].present

(***************************************************************************)
(* Claims: event fusion                                                    *)
(***************************************************************************)
\* C6: fuse() returns at most one event, and whenever the latest inertial
\* sample has g_force > crash_g it is Crash, severity Critical, with that
\* g_force, also when the HardBraking or the drowsiness-and-lane-departure
\* predicate holds too; HardBraking in turn goes before the third predicate.
C6_CrashFirst ==
    fused.called =>
        /\ IsCrash =>
              /\ fused.event.kind = "Crash"
              /\ fused.event.severity = "Critical"
              /\ fused.event.g_force = imu_window[Len(imu_window)].g_force
        /\ (~IsCrash /\ IsHardBraking) => fused.event.kind = "HardBraking"
        /\ (~IsCrash /\ ~IsHardBraking /\ IsDrowsyDeparture) =>
              fused.event.kind = "DrowsinessLaneDeparture"
        /\ (~IsCrash /\ ~IsHardBraking /\ ~IsDrowsyDeparture) =>
              fused.event = NoEvent

\* all three predicates hold at once and fuse() answered Crash
C6_Witness ==
    /\ fused.called
    /\ IsCrash
    /\ IsHardBraking
    /\ IsDrowsyDeparture
    /\ fused.event.kind = "Crash"

\* C17: fuse() emits no event on a stale sample: the newest sample of every
\* source the predicate of the emitted event reads is within the staleness
\* budget of that source.
C17_NoEventFromStaleSample ==
    fused.called =>
        /\ fused.event.kind = "Crash" => ~stale["imu"]
        /\ fused.event.kind = "HardBraking" => (~stale["imu"] /\ ~stale["obd"])
        /\ fused.event.kind = "DrowsinessLaneDeparture" =>
              (~stale["dms"] /\ ~stale["adas"])

WindowCap(src) ==
    IF src = "obd" THEN ObdWindowCap
    ELSE IF src = "dms" THEN DmsWindowCap
    ELSE IF src = "adas" THEN AdasWindowCap
    ELSE ImuWindowCap

\* the last n items of seq
LastN(seq, n) == SubSeq(seq, Max(1, Len(seq) - n + 1), Len(seq))

\* a step that changes the window of src appends one item to it, evicts its
\* oldest item when it was full, and leaves the other windows alone
WindowStep(src) ==
    WindowOf(src)' # WindowOf(src) =>
        /\ Len(WindowOf(src)') > 0
        /\ WindowOf(src)' =
              LastN(Append(WindowOf(src), WindowOf(src)'[Len(WindowOf(src)')]),
                    WindowCap(src))
        /\ \A other \in Sources \ {src} : WindowOf(other)' = WindowOf(other)

C3_CollectWithinTimeout ==
    bpc = "process" => collect_end - first_at <= batcher.timeout_ms

\* the vectors sent so far, in the order they were sent
SentSoFar == [i \in 1..n_sent |-> i]

\* C12: once every Sender is dropped, run() eventually returns, and by then
\* every vector sent has been given to the classifier exactly once.
C12_ClosedRunReturns ==
    chan_closed ~> (bpc = "stopped" /\ submitted = SentSoFar)

\* run() has returned after the channel closed in the middle of a batch
C12_Witness ==
    /\ bpc = "stopped"
    /\ closed_in = "collect"
    /\ n_sent >= 2
    /\ submitted = SentSoFar

\* C13: the vectors go to the classifier one per vector received and in
\* the order received, across batches; a batch holds 1..batch_size vectors;
\* a classifier error neither stops run() nor skips a vector: run() stops
\* only on a closed, drained channel.
C13_InOrderBoundedBatches ==
    /\ submitted \o batch \o chan = SentSoFar
    /\ bpc = "collect" => Len(batch) \in 1..(batcher.batch_size - 1)
    /\ bpc = "process" => Len(batch) \in 1..batcher.batch_size
    /\ bpc = "stopped" => (chan_closed /\ chan = <<>> /\ batch = <<>>)

\* a classifier error in the middle of the second batch or later
C13_Witness ==
    /\ last_predict.called
    /\ last_predict.result = "err"
    /\ batcher.batch_size >= 2
    /\ Len(submitted) > batcher.batch_size
    /\ bpc = "process"
    /\ submitted[Len(submitted)] = last_predict.vector

(***************************************************************************)
(* Claims: PID scheduler                                                   *)
(***************************************************************************)
\* C7: the entry an iteration pops has the earliest next_query of the
\* queue, and the highest priority among those with that next_query.
C7_PopsEarliestThenPriority ==
    last_iter.called =>
        \A e \in last_iter.others :
            /\ last_iter.popped.next_query <= e.next_query
            /\ last_iter.popped.next_query = e.next_query =>
                  last_iter.popped.priority >= e.priority

\* a pop of a middle-priority entry: an entry due at the same instant has a
\* lower priority, and the entries of higher priority are due later
C7_Witness ==
    /\ last_iter.called
    /\ \E e \in last_iter.others :
          /\ e.next_query = last_iter.popped.next_query
          /\ e.priority < last_iter.popped.priority
    /\ \E e \in last_iter.others :
          /\ e.next_query > last_iter.popped.next_query
          /\ e.priority > last_iter.popped.priority

CoolantOk ==
    /\ last_iter.called
    /\ last_iter.ok
    /\ last_iter.popped.pid = "CoolantTemp"

C9_RestoreBelowThreshold ==
    (/\ CoolantOk
     /\ last_iter.popped.rate_hz = BoostedRate
     /\ last_iter.value < sched_config.coolant_boost_threshold) =>
        /\ last_iter.pushed.rate_hz = sched_config.base_rate_hz
        /\ last_iter.pushed.next_query =
              last_iter.now + Interval(sched_config.base_rate_hz)

\* C10: a failed query adds one to the PID's failure counter and puts the
\* PID back at now + 1/rate_hz with its rate unchanged, whatever the count,
\* and leaves the other entries alone; a success sets the counter to 0.
C10_FailureCountsAndRequeues ==
    last_iter.called =>
        /\ ~last_iter.ok =>
              /\ ~panicked
              /\ last_iter.pushed.failures = last_iter.popped.failures + 1
              /\ last_iter.pushed.rate_hz = last_iter.popped.rate_hz
              /\ last_iter.pushed.next_query =
                    last_iter.now + Interval(last_iter.popped.rate_hz)
              /\ queue = Shift(last_iter.others \cup {last_iter.pushed},
                               last_iter.now)
        /\ last_iter.ok => last_iter.pushed.failures = 0

\* C14: a frame offered to a full frame channel takes the place of the
\* oldest queued frame, so the newest frame in the channel is always the
\* one run() offered last, which is its current_frame.
C14_NewestFrameAdmitted ==
    frame_chan # <<>> => frame_chan[Len(frame_chan)] = current_frame

\* C22: however many queries of a PID fail in a row, run() keeps going
\* without a panic and the failure counter of every queued PID is the
\* number of its failed queries since its last success.
C22_CounterIsFailureStreak ==
    /\ ~panicked
    /\ \A e \in queue : e.failures = fail_streak[e.pid]

\* C23: every frame run() sends has had each of its eight fields set by a
\* successful decode.
C23_SentFramesComplete ==
    \A i \in 1..Len(frame_chan) : frame_chan[i] = Pids

\* queries of the entry's PID in the window from the start of run() to the
\* last query made, an entry due at that instant counted as queried
QueriedBy(entry) ==
    queries[entry.pid] + (IF entry.next_query <= 0 THEN 1 ELSE 0)

\* floor(r * W) for a rate in tenths of Hz and a window in ms
Expected(rate_hz, window) == (rate_hz * window) \div 10000

\* C24: with no failed query, in a window of at least 10 s every PID with
\* target rate r is queried between floor(r*W) - 2 and floor(r*W) + 2
\* times; here for the windows that begin with run().
C24_RateWithinTwo ==
    (running /\ elapsed >= 10000) =>
        \A entry \in queue :
            /\ QueriedBy(entry) >= Expected(entry.rate_hz, elapsed) - 2
            /\ QueriedBy(entry) <= Expected(entry.rate_hz, elapsed) + 2

\* entry b is entry a with at most its rate changed
SameButRate(a, b) ==
    /\ b.pid = a.pid
    /\ b.priority = a.priority
    /\ b.failures = a.failures
    /\ b.next_query = a.next_query

PidsOf(entries) == {e.pid : e \in entries}

\* C26: a boost changes only the rate_hz of the PID it targets.  After
\* boost_priority(pid, rate) the queue holds the same PIDs, each with its
\* priority, failure counter and next_query, and every other PID with its
\* rate; after an iteration of run() that boosted the coolant PID, every
\* other entry is in the queue as it was (its next_query the same instant).
C26_BoostTouchesOnlyTarget ==
    /\ last_boost.called =>
          /\ PidsOf(last_boost.after) = PidsOf(last_boost.before)
          /\ Cardinality(last_boost.after) = Cardinality(last_boost.before)
          /\ \A a \in last_boost.before :
                \E b \in last_boost.after :
                    /\ SameButRate(a, b)
                    /\ a.pid # last_boost.pid => b.rate_hz = a.rate_hz
                    /\ a.pid = last_boost.pid =>
                          b.rate_hz = last_boost.new_rate_hz
    /\ (/\ last_iter.called
        /\ last_iter.ok
        /\ last_iter.popped.pid = "CoolantTemp"
        /\ last_iter.value > sched_config.coolant_boost_threshold) =>
          /\ PidsOf(queue) = PidsOf(last_iter.others) \cup {"CoolantTemp"}
          /\ Cardinality(queue) = Cardinality(last_iter.others) + 1
          /\ \A a \in last_iter.others :
                [a EXCEPT !.next_query = @ - last_iter.now] \in queue
          /\ \E b \in queue :
                /\ b.pid = "CoolantTemp"
                /\ b.priority = last_iter.popped.priority
                /\ b.rate_hz = sched_config.base_rate_hz
                                 * sched_config.boost_multiplier

\* boost_priority reprogrammed Maf before run(), and run() then boosted
\* the coolant PID while the other entries were waiting at different
\* instants
C26_Witness ==
    /\ last_boost.called
    /\ last_boost.pid = "Maf"
    /\ \E a \in last_boost.before : a.pid = "Maf" /\ a.rate_hz # last_boost.new_rate_hz
    /\ last_iter.called
    /\ last_iter.ok
    /\ last_iter.popped.pid = "CoolantTemp"
    /\ last_iter.value > sched_config.coolant_boost_threshold
    /\ last_iter.popped.rate_hz = sched_config.base_rate_hz
    /\ last_iter.now > 0

\* C27: the driver id gates no predicate.  A step that changes driver_id
\* leaves what fuse() returns and everything else of the engine as it
\* was, so two engines given the same add_* calls and different
\* set_driver calls return the same from every fuse(); and fuse() returns
\* what the windows alone determine.
C27_DriverGatesNothing ==
    /\ [](fused.called => fused.event = FuseResult)
    /\ [][driver_id' # driver_id =>
            /\ FuseResult' = FuseResult
            /\ UNCHANGED <<obd_window, dms_window, adas_window, imu_window,
                           fusion_config, fused>>]_vars

\* fuse() reported an event, the driver was then changed, and the windows
\* still give that event
C27_Witness ==
    /\ fused.called
    /\ fused.event # NoEvent
    /\ driver_id # "none"
    /\ fused.event = FuseResult

\* the newest diagnostic speed is above the newest speed-limit sign by more
\* than the threshold
SpeedingHolds ==
    /\ Len(obd_window) > 0
    /\ Len(adas_window) > 0
    /\ obd_window[Len(obd_window)].speed_kmh
          - adas_window[Len(adas_window)].limit_kmh
            > fusion_config.speeding_threshold_kmh

\* C28: when neither Crash nor HardBraking nor DrowsinessLaneDeparture
\* holds and the speed exceeds the limit by more than
\* speeding_threshold_kmh, fuse() returns a Speeding event with the speed
\* and the limit.
C28_SpeedingEmitted ==
    (/\ fused.called
     /\ ~IsCrash
     /\ ~IsHardBraking
     /\ ~IsDrowsyDeparture
     /\ SpeedingHolds) =>
        fused.event =
            [kind |-> "Speeding",
             current_kmh |-> obd_window[Len(obd_window)].speed_kmh,
             limit_kmh |-> adas_window[Len(adas_window)].limit_kmh]

\* C29: with the default configuration get_severity(c) is "low" below
\* 0.75, "medium" from 0.75 to below 0.85, "high" from 0.85 to below 0.90
\* and "critical" from 0.90; and with any configuration a prediction for
\* which should_fire answered true is not rated "low".
C29_SeverityBands ==
    /\ (sev.called /\ config = AlertDefault) =>
          sev.severity =
              IF sev.confidence < 75 THEN "low"
              ELSE IF sev.confidence < 85 THEN "medium"
              ELSE IF sev.confidence < 90 THEN "high"
              ELSE "critical"
    /\ (/\ sev.called
        /\ last_call.called
        /\ last_call.result
        /\ last_call.confidence = sev.confidence) =>
          sev.severity # "low"

\* with the default configuration a prediction with a confidence of exactly
\* 0.75 passes should_fire and is rated "medium"
C29_Witness ==
    /\ sev.called
    /\ config = AlertDefault
    /\ last_call.called
    /\ last_call.result
    /\ last_call.confidence = sev.confidence
    /\ sev.confidence = 75
    /\ sev.severity = "medium"

(***************************************************************************)
(* Claims: median filter                                                   *)
(***************************************************************************)
\* the median of the last n entries of seq (n odd): the value with at most
\* n \div 2 of them below it and at most n \div 2 of them above it
MedianOfLast(seq, n) ==
    LET lastn == LastN(seq, n)
    IN  CHOOSE x \in {lastn[i] : i \in 1..Len(lastn)} :
            /\ Cardinality({i \in 1..Len(lastn) : lastn[i] < x}) <= n \div 2
            /\ Cardinality({i \in 1..Len(lastn) : lastn[i] > x}) <= n \div 2

\* C19 as stated: each of the first w calls after new() or reset() returns
\* its input, and every later call the median of the last w inputs.
C19_FirstWCallsPassThrough ==
    mf_out.called =>
        IF Len(mf_inputs) <= mf_size
        THEN mf_out.value = mf_out.input
        ELSE mf_out.value = MedianOfLast(mf_inputs, mf_size)

\* C19 amended: each of the first w - 1 calls returns its input; the w-th
\* call and every later one return the median of the last w inputs.
C19_PassThroughUntilFilled ==
    mf_out.called =>
        IF Len(mf_inputs) < mf_size
        THEN mf_out.value = mf_out.input
        ELSE mf_out.value = MedianOfLast(mf_inputs, mf_size)

\* the w-th call after a reset returned the median, which is not its input
C19_Witness ==
    /\ mf_out.called
    /\ mf_size = MaxWindow
    /\ Len(mf_inputs) = mf_size
    /\ mf_out.value # mf_out.input
    /\ mf_out.value = MedianOfLast(mf_inputs, mf_size)

(***************************************************************************)
(* Claims: repository                                                      *)
(***************************************************************************)
\* C20: the counts never exceed the retention limits, and each collection
\* is the most recently inserted records, oldest first, so that an insert
\* at capacity has removed exactly the oldest record.
C20_RetentionKeepsNewest ==
    /\ sensor_count <= max_sensor_records
    /\ prediction_count <= max_prediction_records
    /\ sensor_log = LastN(sensors_inserted, max_sensor_records)
    /\ predictions = LastN(predictions_inserted, max_prediction_records)

\* both collections are full and each has dropped at least two records
C20_Witness ==
    /\ sensor_count = max_sensor_records
    /\ prediction_count = max_prediction_records
    /\ Len(sensors_inserted) >= max_sensor_records + 2
    /\ Len(predictions_inserted) >= max_prediction_records + 2
    /\ sensor_log[1] # sensor_log[sensor_count]

StrictlyIncreasing(seq) ==
    \A i \in 1..Len(seq), j \in 1..Len(seq) : i < j => seq[i] < seq[j]

\* C21: the ids returned by insert_prediction start at 1, are strictly
\* increasing in the order the calls complete and are never reused, across
\* clear(), eviction and concurrent calls; the stored predictions are in
\* strictly increasing id order.
C21_IdsStrictlyIncreasing ==
    /\ returned_ids # <<>> => returned_ids[1] = 1
    /\ StrictlyIncreasing(returned_ids)
    /\ StrictlyIncreasing([i \in 1..Len(predictions) |-> predictions[i].id])
    /\ \A i \in 1..Len(predictions) : predictions[i].id < next_prediction_id

\* ids were returned after a clear() and after an eviction, and one thread
\* is about to return while the other is between two calls
C21_Witness ==
    /\ Len(returned_ids) > max_prediction_records + 1
    /\ Len(predictions) = max_prediction_records
    /\ Len(predictions_inserted) < Len(returned_ids)
    /\ \E t \in Threads : ins_pc[t] = "pushed"
    /\ \E t \in Threads : ins_pc[t] = "idle"

(***************************************************************************)
(* Claims: read_window                                                     *)
(***************************************************************************)
NonDecreasing(seq) ==
    \A i \in 1..Len(seq), j \in 1..Len(seq) : i <= j => seq[i] <= seq[j]

\* the frames the buffer holds, newest first
HeldNewestFirst == [k \in 1..RingLen |-> pushed[Len(pushed) - k + 1]]

AtOrAfter(frame, cutoff) == stamps[frame] >= cutoff

\* C25: when the frames were pushed with non-decreasing timestamps,
\* read_window(d) returns exactly the frames held in the buffer whose
\* timestamp_ms is at least now - d (0 when d > now), newest first.
C25_ReadWindowExact ==
    (rw.called /\ NonDecreasing(stamps)) =>
        LET cutoff == IF rw.duration_ms > rw.now THEN 0
                      ELSE rw.now - rw.duration_ms
            InCut(frame) == AtOrAfter(frame, cutoff)
        IN  rw.frames = SelectSeq(HeldNewestFirst, InCut)

\* a read after the buffer has wrapped that returns some of the frames held
\* and leaves out older ones
C25_Witness ==
    /\ rw.called
    /\ NonDecreasing(stamps)
    /\ Len(pushed) > capacity
    /\ Len(rw.frames) >= 1
    /\ Len(rw.frames) < RingLen
    /\ rw.now > rw.duration_ms

(***************************************************************************)
(* Claims: record_fire and acknowledge                                     *)
(***************************************************************************)
\* the state of label l after record_fire(l) found the manager as `before`
Fired(before, l) ==
    [present |-> TRUE, last_fired |-> clock,
     fire_count |-> IF before[l].present THEN before[l].fire_count + 1 ELSE 1,
     acknowledged |-> FALSE]

\* C32: record_fire(L) adds one to hourly_count and to L's fire_count (1 on
\* the first fire), sets L's last_fired to now and its flag to false, and
\* leaves every other label alone; acknowledge(L) returns true and sets the
\* flag if L has a state, and otherwise returns false and changes nothing;
\* a flag that is true stays true until record_fire(L).
C32_RecordFireAndAcknowledge ==
    /\ [](aop.op = "record_fire" =>
            /\ hourly_count = aop.hourly_count + 1
            /\ states[aop.label] = Fired(aop.states, aop.label)
            /\ \A l \in Labels \ {aop.label} : states[l] = aop.states[l])
    /\ [](aop.op = "acknowledge" =>
            /\ hourly_count = aop.hourly_count
            /\ aop.result = aop.states[aop.label].present
            /\ states = IF aop.result
                        THEN [aop.states EXCEPT ![aop.label].acknowledged = TRUE]
                        ELSE aop.states)
    /\ [][\A l \in Labels :
            (states[l].acknowledged /\ states'[l].present
                /\ ~states'[l].acknowledged)
            => (aop'.op = "record_fire" /\ aop'.label = l)]_vars

\* a label fired, acknowledged, and fired again later: the flag is false
\* again, the count is 2 and last_fired has moved
C32_Witness ==
    /\ aop.op = "record_fire"
    /\ aop.states[aop.label].acknowledged
    /\ states[aop.label].fire_count = 2
    /\ states[aop.label].last_fired > aop.states[aop.label].last_fired

(***************************************************************************)
(* Claims: run() and stop()                                                *)
(***************************************************************************)
\* C33: once stop() has been called, before run() or while it runs,
\* is_running() is false, run() issues no query beyond one in flight, and
\* it returns.
C33_StopEndsQueries ==
    life_stop.called =>
        /\ life_stop.queries = 0
        /\ life_run # "running" => ~running

\* C37: whenever run() is not in the middle of an iteration (before it
\* starts, after it returns, after its future is dropped at a suspension
\* point) the queue holds each of the eight PIDs exactly once.
C37_QueueHoldsEveryPid ==
    life_run # "running" =>
        /\ Cardinality(queue) = 8
        /\ \A pid \in Pids : Cardinality({e \in queue : e.pid = pid}) = 1

(***************************************************************************)
(* Claims: normalizer                                                      *)
(***************************************************************************)
\* C34: in identity mode (NormalizationMethod::None) normalize(x) returns x
\* for every call, the first after construction or reset included.
C34_IdentityReturnsInput ==
    (norm_call.called /\ normalizer.method = "None") =>
        norm_call.result = [num |-> norm_call.value, den |-> 1]

(***************************************************************************)
(* Claims: extract_from_frames                                             *)
(***************************************************************************)
\* C35: after extract_from_frames has pushed the k >= 1 frames it was
\* given, its buffer holds all k: len() == k and read_last returns them
\* all, newest first.
C35_BufferHoldsEveryFrame ==
    (xf.extracted /\ Len(xf.frames) >= 1) =>
        /\ rl.len = Len(xf.frames)
        /\ rl.frames = [i \in 1..Len(xf.frames) |->
                           xf.frames[Len(xf.frames) + 1 - i]]

(***************************************************************************)
(* Claims: cloud sync                                                      *)
(***************************************************************************)
\* C36: the upload decision admits every Crash whatever the quota used and
\* the schedule, and refuses every other event with BandwidthLimit when
\* used_today_mb >= daily_quota_mb or the schedule is Manual; a publish
\* that is refused or fails leaves used_today_mb as it was.
C36_CrashBypassesQuota ==
    cloud_call.called =>
        /\ cloud_call.event = "Crash" => cloud_call.result # "BandwidthLimit"
        /\ ( /\ cloud_call.event # "Crash"
             /\ \/ cloud_call.used >= cloud.daily_quota_mb
                \/ cloud.schedule = "Manual" )
           => cloud_call.result = "BandwidthLimit"
        /\ cloud_call.result # "Ok" => cloud.used_today_mb = cloud_call.used

\* a Crash published under a Manual schedule with the quota used up
C36_Witness ==
    /\ cloud_call.called
    /\ cloud_call.event = "Crash"
    /\ cloud.schedule = "Manual"
    /\ cloud_call.used >= cloud.daily_quota_mb
    /\ cloud.daily_quota_mb > 0
    /\ cloud_call.result = "Ok"
    /\ cloud.used_today_mb = cloud_call.used + 1

(***************************************************************************)
(* Claims: the Repository's locks                                          *)
(***************************************************************************)
HeldBy(t) == {mutex \in Mutexes : lk_holder[mutex] = t}

\* the thread is in an operation and its next step cannot be taken
Blocked(t) ==
    /\ lk_op[t] # "none"
    /\ LET step == LockSteps(lk_op[t])[lk_step[t]]
       IN  step.do = "lock" /\ ~LockFree(lk_holder[step.mutex])

C40_FailedQueryLeavesFrame ==
    /\ (last_iter.called /\ ~last_iter.ok) =>
            /\ cur = data_before.cur
            /\ offers = data_before.offers
    /\ \A pid \in Pids : cur.fields[pid] = decoded[pid]

\* the coolant query fails after a coolant value was decoded and other
\* PIDs answered since
C40_Witness ==
    /\ last_iter.called
    /\ ~last_iter.ok
    /\ last_iter.popped.pid = "CoolantTemp"
    /\ cur.fields["CoolantTemp"] \in CoolantValues
    /\ cur.fields["Maf"] = 100
    /\ cur.timestamp_ms > 3

(***************************************************************************)
(* Claims: polling threads                                                 *)
(***************************************************************************)
\* C31: after the receiving side of the service is dropped, the polling
\* thread eventually exits, whatever the driver's reads return.
C31_PollerExitsAfterDrop == (~poll_rx_open) ~> (poll_pc = "done")

(***************************************************************************)
(* Claims: checksum                                                        *)
(***************************************************************************)
RECURSIVE SumOf(_)
SumOf(data) == IF data = <<>> THEN 0 ELSE Head(data) + SumOf(Tail(data))

\* C30: validate_checksum(data, expected) returns Ok exactly when the sum
\* of the bytes of data modulo 256 equals expected, and otherwise a
\* ChecksumMismatch with expected and that sum modulo 256; it returns for
\* every payload, whatever the sum.
C30_ChecksumIsSumMod256 ==
    cs_result.called =>
        /\ cs_result.ok <=> (SumOf(cs_data) % 256 = cs_expected)
        /\ cs_result.expected = cs_expected
        /\ cs_result.actual = SumOf(cs_data) % 256

\* a payload whose sum passes 255 more than once, rejected
C30_Witness ==
    /\ cs_result.called
    /\ SumOf(cs_data) >= 512
    /\ ~cs_result.ok
    /\ cs_result.actual # cs_expected

(***************************************************************************)
(* Specifications                                                          *)
(***************************************************************************)
\* the components a specification leaves alone stay as constructed with
\* their default configuration
RingIdle  == RingInit /\ capacity = MaxCap
AlertIdle == AlertInit /\ config.cooldown_seconds = 1800
                      /\ config.max_alerts_per_hour = 1

BatcherIdle == BatcherInit /\ batcher.batch_size = 1

SchedIdle ==
    /\ SchedInit
    /\ client = "mock"
    /\ ~overflow_checks
    /\ \A e \in queue : e.next_query = 0

\* the later components, as constructed
LateIdle == PollIdle /\ AopInit /\ LifeInit /\ NormIdle /\ XfInit /\ CloudIdle /\ LockInit /\ DataInit

\* the variables beyond the five components, as constructed
MedianIdle == MedianInit /\ mf_size = 1

ExtIdle == ConcInit /\ BatcherGhostInit /\ FusionGhostInit /\ MedianIdle /\ RepoInit /\ InsInit /\ SchedGhostInit /\ RwinInit /\ BoostInit /\ RateIdle
             /\ SevInit /\ ChecksumIdle /\ LateIdle

ExtMedian == ConcInit /\ BatcherGhostInit /\ FusionGhostInit /\ RepoInit /\ InsInit /\ SchedGhostInit /\ RwinInit /\ BoostInit /\ RateIdle
             /\ SevInit /\ ChecksumIdle /\ LateIdle

CoreIdle == RingIdle /\ AlertIdle /\ FusionInit /\ BatcherIdle /\ SchedIdle

InitMedian == MedianInit /\ ExtMedian /\ CoreIdle
InitRepo   == RepoInit /\ ExtIdle /\ CoreIdle

InitRing    == RingInit /\ ExtIdle /\ AlertIdle /\ FusionInit /\ BatcherIdle /\ SchedIdle
InitAlert   == AlertInit /\ ExtIdle /\ RingIdle /\ FusionInit /\ BatcherIdle /\ SchedIdle
InitFusion  == FusionInit /\ ExtIdle /\ RingIdle /\ AlertIdle /\ BatcherIdle /\ SchedIdle
InitBatcher == BatcherInit /\ ExtIdle /\ RingIdle /\ AlertIdle /\ FusionInit /\ SchedIdle
InitSched   == SchedInit /\ ExtIdle /\ RingIdle /\ AlertIdle /\ FusionInit /\ BatcherIdle

InitRingConc == RingInit /\ ExtIdle /\ AlertIdle /\ FusionInit /\ BatcherIdle /\ SchedIdle

SpecRing  == InitRing /\ [][RingNext]_vars
SpecAlert == InitAlert /\ [][AlertNext]_vars
SpecFusion == InitFusion /\ [][FusionNext]_vars
SpecBatcher == InitBatcher /\ [][BatcherNext]_vars
SpecSched == InitSched /\ [][SchedNext]_vars
\* the batcher task is polled whenever what it awaits is ready
BatcherFair ==
    /\ WF_vars(BatcherRecvFirst)
    /\ WF_vars(BatcherRecvClosed)
    /\ WF_vars(BatcherCollectRecv)
    /\ WF_vars(BatcherCollectBreak)
    /\ WF_vars(BatcherPredict)

SpecBatcherLive == InitBatcher /\ [][BatcherNext]_vars /\ BatcherFair
SpecRingConc == InitRingConc /\ [][ConcNext]_vars
SpecMedian == InitMedian /\ [][MedianNext]_vars
SpecRepo == InitRepo /\ [][RepoNext]_vars
InitSchedMock == InitSched /\ client = "mock"

InitSeverity ==
    /\ config \in SeverityConfigs /\ AlertStart
    /\ ExtIdle /\ RingIdle /\ FusionInit /\ BatcherIdle /\ SchedIdle

ExtChecksum == ConcInit /\ BatcherGhostInit /\ FusionGhostInit /\ MedianIdle
                 /\ RepoInit /\ InsInit /\ SchedGhostInit /\ RwinInit
                 /\ BoostInit /\ RateIdle /\ SevInit
InitChecksum == ChecksumInit /\ ExtChecksum /\ LateIdle /\ CoreIdle

\* the five components and the twelve, as constructed
OldIdle == CoreIdle /\ ExtChecksum /\ ChecksumIdle

InitPoller == PollInit /\ DataInit /\ LockInit /\ AopInit /\ LifeInit /\ NormIdle /\ XfInit /\ CloudIdle /\ OldIdle
SpecPollerLive == InitPoller /\ [][PollerNext]_vars /\ PollerFair

InitAlertOps ==
    /\ AlertInit /\ config.max_alerts_per_hour = 3
    /\ config.cooldown_seconds = 2
    /\ RingIdle /\ FusionInit /\ BatcherIdle /\ SchedIdle
    /\ ExtChecksum /\ ChecksumIdle /\ LateIdle
SpecAlertOps == InitAlertOps /\ [][OpsNext]_vars

InitSchedLife ==
    /\ SchedInit /\ client = "mock"
    /\ RingIdle /\ AlertIdle /\ FusionInit /\ BatcherIdle
    /\ ExtChecksum /\ ChecksumIdle /\ LateIdle
SpecSchedLife == InitSchedLife /\ [][LifeNext]_vars

InitNorm == NormInit /\ DataInit /\ LockInit /\ PollIdle /\ AopInit /\ LifeInit /\ XfInit /\ CloudIdle /\ OldIdle
SpecNorm == InitNorm /\ [][NormNext]_vars

SpecExtract == InitRing /\ [][XfNext]_vars

InitCloud == CloudInit /\ DataInit /\ LockInit /\ PollIdle /\ AopInit /\ LifeInit /\ NormIdle /\ XfInit /\ OldIdle
SpecCloud == InitCloud /\ [][CloudNext]_vars

InitLocks == LockInit /\ DataInit /\ PollIdle /\ AopInit /\ LifeInit /\ NormIdle /\ XfInit /\ CloudIdle /\ OldIdle
SpecRepoLocks == InitLocks /\ [][LocksNext]_vars /\ LocksFair

InitSchedData ==
    /\ SchedInit /\ client = "flaky"
    /\ RingIdle /\ AlertIdle /\ FusionInit /\ BatcherIdle
    /\ ExtChecksum /\ ChecksumIdle /\ LateIdle
SpecSchedData == InitSchedData /\ [][DataNext]_vars

SpecRepoConc == InitRepo /\ [][InsNext]_vars
SpecChecksum == InitChecksum /\ [][ChecksumNext]_vars
SpecSeverity == InitSeverity /\ [][SevNext]_vars
SpecSchedBoost == InitSchedMock /\ [][SchedBoostNext]_vars

ExtRate == ConcInit /\ BatcherGhostInit /\ FusionGhostInit /\ MedianIdle /\ RepoInit
             /\ InsInit /\ SchedGhostInit /\ RwinInit /\ BoostInit /\ RateInit /\ SevInit
             /\ ChecksumIdle /\ LateIdle
InitSchedRate ==
    /\ SchedInit /\ client = "mock"
    /\ ExtRate /\ RingIdle /\ AlertIdle /\ FusionInit /\ BatcherIdle
SpecSchedRate == InitSchedRate /\ [][SchedRateNext]_vars
SpecRingWindow == InitRing /\ [][RwinNext]_vars

====
